---- MODULE Spec2Model ----
(***************************************************************************)
(* Verification model of the Lincoln data cleaning and import code.        *)
(*                                                                         *)
(* Text is a sequence of one-character strings.  Python scalars are        *)
(* records [k, m, e, s]: k is the kind ("None", "nan", "inf", "ninf",      *)
(* "int", "float", "str"); a finite number has the value m * 10^e; s is    *)
(* the text of a "str".                                                    *)
(***************************************************************************)
EXTENDS Integers, Sequences, FiniteSets, TLC

VARIABLES
    ypc,     \* position of the year pipeline: "call", "ret", "asm"
    ysrc,    \* how the year input was built: [shape, y, z]
    yin,     \* the scalar handed to clean_year
    yout,    \* what clean_year gave back: [k, v, warn, exc]
    yfield,  \* the year field assembled by validate_and_clean_dataframe
    dpc,     \* position of the date pipeline: "call", "ret", "asm", "stored"
    dsrc,    \* how the date input was built: [shape, y]
    din,     \* the scalar handed to clean_date
    flex,    \* outcome of the flexible parse (pd.to_datetime) when consulted
    dout,    \* what clean_date gave back: [date, uncertain, type, exc]
    dfield,  \* the date field assembled by validate_and_clean_dataframe
    dcell,   \* the cell of the date column after the type check
    dstore,  \* the value import_to_db hands to the INSERT statement
    tpc,     \* position of the text pipeline: "raw", "cleaned", "rec"
    tpath,   \* the code that assembles the record: "lincoln", "orphans", "importer"
    tfield,  \* the text field of the record
    tcell,   \* the cell of the row under the field's column (Absent: no such column)
    tval,    \* the cleaned value of the field, before truncation
    trec,    \* the value of the field in the record handed to storage
    cpc,     \* position of the column resolution: "read", "mapped", "resolved", "failed", "inserted"
    cwho,    \* the importer that resolves: "lincoln" (FileProcessor) or "importer" (DataImporter)
    cpath,   \* the path of the file
    chead,   \* the headers of the file as read
    cres,    \* the outcome: [failed, count, format, mapping, table, records]
    rpc,     \* position of the import run
    rcmd,    \* the command that runs: "main", "main_orphans", "main_clean", "importer_main"
    renv,    \* what the run finds: [unset, prior] (the unset variable, the table before the run)
    rdb,     \* the storage: [table, txn] (the rows stored, the rows of the open transaction)
    rrows,   \* the rows of the file as loaded: what happens to each ("ok", "bad", "reject")
    rrecs,   \* the records assembled so far: the numbers of their rows
    ri,      \* the row or record the running loop is at
    rtrace,  \* the steps taken so far, in order
    rout     \* the outcome: [msgs, exit, err, warned]

vars == <<ypc, ysrc, yin, yout, yfield, dpc, dsrc, din, flex, dout, dfield, dcell, dstore,
          tpc, tpath, tfield, tcell, tval, trec, cpc, cwho, cpath, chead, cres,
          rpc, rcmd, renv, rdb, rrows, rrecs, ri, rtrace, rout>>
yvars == <<ypc, ysrc, yin, yout, yfield>>
dvars == <<dpc, dsrc, din, flex, dout, dfield, dcell, dstore>>
tvars == <<tpc, tpath, tfield, tcell, tval, trec>>
cvars == <<cpc, cwho, cpath, chead, cres>>
rvars == <<rpc, rcmd, renv, rdb, rrows, rrecs, ri, rtrace, rout>>
otherThanYear == <<dvars, tvars, cvars, rvars>>
otherThanDate == <<yvars, tvars, cvars, rvars>>
otherThanText == <<yvars, dvars, cvars, rvars>>
otherThanColumns == <<yvars, dvars, tvars, rvars>>
otherThanRun == <<yvars, dvars, tvars, cvars>>

----------------------------------------------------------------------------
(* Characters and text                                                     *)

Digits == <<"0", "1", "2", "3", "4", "5", "6", "7", "8", "9">>

UpperLetters == <<"A", "B", "C", "D", "E", "F", "G", "H", "I", "J", "K", "L", "M",
                  "N", "O", "P", "Q", "R", "S", "T", "U", "V", "W", "X", "Y", "Z">>

LowerLetters == <<"a", "b", "c", "d", "e", "f", "g", "h", "i", "j", "k", "l", "m",
                  "n", "o", "p", "q", "r", "s", "t", "u", "v", "w", "x", "y", "z">>

Range(f) == {f[i] : i \in DOMAIN f}

IsDigit(c) == c \in Range(Digits)

IsSpace(c) == c \in {" ", "\t", "\n"}

\* regex \w
IsWord(c) == c \in Range(Digits) \cup Range(UpperLetters) \cup Range(LowerLetters) \cup {"_"}

DigitVal(c) == (CHOOSE i \in DOMAIN Digits : Digits[i] = c) - 1

LowerChar(c) ==
    IF c \in Range(UpperLetters)
    THEN LowerLetters[CHOOSE i \in DOMAIN UpperLetters : UpperLetters[i] = c]
    ELSE c

UpperChar(c) ==
    IF c \in Range(LowerLetters)
    THEN UpperLetters[CHOOSE i \in DOMAIN LowerLetters : LowerLetters[i] = c]
    ELSE c

\* str.lower()
Lower(s) == [i \in DOMAIN s |-> LowerChar(s[i])]

\* str.upper()
Upper(s) == [i \in DOMAIN s |-> UpperChar(s[i])]

\* str.strip()
Strip(s) ==
    LET keep == {i \in DOMAIN s : ~IsSpace(s[i])}
    IN  IF keep = {} THEN <<>>
        ELSE LET lo == CHOOSE i \in keep : \A j \in keep : i <= j
                 hi == CHOOSE i \in keep : \A j \in keep : j <= i
             IN  SubSeq(s, lo, hi)

\* s[i:] starts with p
StartsAt(s, i, p) == i >= 1 /\ i + Len(p) - 1 <= Len(s) /\ SubSeq(s, i, i + Len(p) - 1) = p

\* p in s
Contains(s, p) == \E i \in 1..(Len(s) + 1) : StartsAt(s, i, p)

\* s.split(p)[0]
SplitFirst(s, p) ==
    IF Contains(s, p)
    THEN LET i == CHOOSE i \in 1..Len(s) :
                      /\ StartsAt(s, i, p)
                      /\ \A j \in 1..(i - 1) : ~StartsAt(s, j, p)
         IN  SubSeq(s, 1, i - 1)
    ELSE s

\* s[:n]
Prefix(s, n) == SubSeq(s, 1, IF n < Len(s) THEN n ELSE Len(s))

AllDigits(s) == \A i \in DOMAIN s : IsDigit(s[i])

\* s[i:i+n] is n digits
DigitsAt(s, i, n) == i >= 1 /\ i + n - 1 <= Len(s) /\ AllDigits(SubSeq(s, i, i + n - 1))

\* Python ints are unbounded.  A value above NatCap is represented by NatCap:
\* the code only compares such values with 1800 and 2000 or subtracts them
\* from 1900, and every such test gives the same answer for NatCap.
NatCap == 100000

RECURSIVE DigitsToNat(_)
\* int(s) of a run of digits
DigitsToNat(s) ==
    IF s = <<>> THEN 0
    ELSE LET hi == DigitsToNat(SubSeq(s, 1, Len(s) - 1))
         IN  IF hi >= NatCap \div 10 THEN NatCap ELSE 10 * hi + DigitVal(s[Len(s)])

RECURSIVE NatToStr(_)
\* str(n) for n >= 0
NatToStr(n) ==
    IF n < 10 THEN <<Digits[n + 1]>>
    ELSE NatToStr(n \div 10) \o <<Digits[(n % 10) + 1]>>

\* str(n)
IntToStr(n) == IF n < 0 THEN <<"-">> \o NatToStr(0 - n) ELSE NatToStr(n)

\* n rendered with at least two digits, as in '%02d'
TwoDigits(n) == IF n < 10 THEN <<"0">> \o NatToStr(n) ELSE NatToStr(n)

RECURSIVE Cat(_)
\* ''.join(parts)
Cat(parts) == IF parts = <<>> THEN <<>> ELSE Head(parts) \o Cat(Tail(parts))

----------------------------------------------------------------------------
(* Python scalars                                                          *)

NoText == <<>>

PyNone == [k |-> "None", m |-> 0, e |-> 0, s |-> NoText]
PyNaN == [k |-> "nan", m |-> 0, e |-> 0, s |-> NoText]
PyInf == [k |-> "inf", m |-> 0, e |-> 0, s |-> NoText]
PyNegInf == [k |-> "ninf", m |-> 0, e |-> 0, s |-> NoText]
PyInt(n) == [k |-> "int", m |-> n, e |-> 0, s |-> NoText]
\* the int m * 10^e
PyIntExp(mant, ex) == [k |-> "int", m |-> mant, e |-> ex, s |-> NoText]
\* the float m * 10^e (e = -1: one decimal place)
PyFloat(mant, ex) == [k |-> "float", m |-> mant, e |-> ex, s |-> NoText]
PyStr(t) == [k |-> "str", m |-> 0, e |-> 0, s |-> t]

\* pd.isna(x) of a scalar: None and NaN (and NaT), not the infinities
pd_isna(x) == x.k \in {"None", "nan"}

\* isinstance(x, (int, float))
IsNumber(x) == x.k \in {"int", "float", "nan", "inf", "ninf"}

\* number of decimal digits of the largest finite double, 1.797...e308
FloatMaxDigits == 309

\* float(x) of an int raises OverflowError beyond the double range; the inputs
\* hold no int of exactly FloatMaxDigits digits, where the leading digits decide
FloatOverflows(x) ==
    x.k = "int" /\ x.m # 0 /\ Len(NatToStr(IF x.m < 0 THEN 0 - x.m ELSE x.m)) + x.e > FloatMaxDigits

\* float.is_integer() of the finite number m * 10^e
is_integer(x) == x.e >= 0 \/ x.m % 10 = 0

\* str(x) of a scalar
py_str(x) ==
    CASE x.k = "str" -> x.s
      [] x.k = "None" -> <<"N", "o", "n", "e">>
      [] x.k = "nan" -> <<"n", "a", "n">>
      [] x.k = "inf" -> <<"i", "n", "f">>
      [] x.k = "ninf" -> <<"-", "i", "n", "f">>
      [] x.k = "int" -> IntToStr(x.m) \o [i \in 1..x.e |-> "0"]
      [] x.k = "float" ->
            IF x.e >= 0 THEN IntToStr(x.m) \o <<".", "0">>
            ELSE (IF x.m < 0 THEN <<"-">> ELSE <<>>)
                 \o NatToStr((IF x.m < 0 THEN 0 - x.m ELSE x.m) \div 10)
                 \o <<".">> \o NatToStr((IF x.m < 0 THEN 0 - x.m ELSE x.m) % 10)

\* int(s) of text: surrounding whitespace and one sign are accepted, anything
\* else than digits raises ValueError
py_int(s) ==
    LET t == Strip(s)
        signed == t # <<>> /\ t[1] \in {"-", "+"}
        body == IF signed THEN Tail(t) ELSE t
    IN  IF body # <<>> /\ AllDigits(body)
        THEN [ok |-> TRUE, v |-> IF signed /\ t[1] = "-" THEN 0 - DigitsToNat(body) ELSE DigitsToNat(body)]
        ELSE [ok |-> FALSE, v |-> 0]

----------------------------------------------------------------------------
(* Regular expressions of the cleaning code                                *)

\* re.search(r'\d{4}', s): where the first run of four digits starts, 0 if none
Search4(s) ==
    IF \E i \in 1..Len(s) : DigitsAt(s, i, 4)
    THEN CHOOSE i \in 1..Len(s) : DigitsAt(s, i, 4) /\ \A j \in 1..(i - 1) : ~DigitsAt(s, j, 4)
    ELSE 0

\* int(re.search(r'\d{4}', s).group())
Search4Value(s) == DigitsToNat(SubSeq(s, Search4(s), Search4(s) + 3))

RECURSIVE SkipSpace(_, _)
\* the first position at or after i that holds no whitespace
SkipSpace(s, i) == IF i <= Len(s) /\ IsSpace(s[i]) THEN SkipSpace(s, i + 1) ELSE i

RECURSIVE DigitRunEnd(_, _)
\* the position after the digits that start at i
DigitRunEnd(s, i) == IF i <= Len(s) /\ IsDigit(s[i]) THEN DigitRunEnd(s, i + 1) ELSE i

TAge == <<"a", "g", "e">>

\* r'age\s*(\d+)' matches at i
AgeAt(s, i) == StartsAt(s, i, TAge) /\ DigitRunEnd(s, SkipSpace(s, i + 3)) > SkipSpace(s, i + 3)

\* re.search(r'age\s*(\d+)', s): [found, age]
SearchAge(s) ==
    IF \E i \in 1..Len(s) : AgeAt(s, i)
    THEN LET i == CHOOSE i \in 1..Len(s) : AgeAt(s, i) /\ \A j \in 1..(i - 1) : ~AgeAt(s, j)
             d == SkipSpace(s, i + 3)
         IN  [found |-> TRUE, age |-> DigitsToNat(SubSeq(s, d, DigitRunEnd(s, d) - 1))]
    ELSE [found |-> FALSE, age |-> 0]

\* re.match(r'\d{4}-\d{2}-\d{2}', s)
MatchIsoDate(s) ==
    /\ DigitsAt(s, 1, 4) /\ StartsAt(s, 5, <<"-">>)
    /\ DigitsAt(s, 6, 2) /\ StartsAt(s, 8, <<"-">>)
    /\ DigitsAt(s, 9, 2)

\* re.match(r'\d{4}(?:\.0)?$', s)
MatchSimpleYear(s) ==
    /\ DigitsAt(s, 1, 4)
    /\ \/ Len(s) = 4
       \/ Len(s) = 6 /\ StartsAt(s, 5, <<".", "0">>)
       \/ Len(s) = 5 /\ s[5] = "\n"
       \/ Len(s) = 7 /\ StartsAt(s, 5, <<".", "0", "\n">>)

----------------------------------------------------------------------------
(* DataProcessor.clean_year / DataImporter.clean_year                      *)

MinYear == 1800
MaxYear == 2000

\* the reference year of the age estimate (the 1900 census)
CensusYear == 1900

YearIdle == [k |-> "unset", v |-> 0, warn |-> 0, exc |-> "none"]
YearNone(w) == [k |-> "None", v |-> 0, warn |-> w, exc |-> "none"]
YearInt(y) == [k |-> "int", v |-> y, warn |-> 0, exc |-> "none"]
YearRaise(x) == [k |-> "raise", v |-> 0, warn |-> 0, exc |-> x]

\* 1800 <= year_int <= 2000
YearInRange(y) == MinYear <= y /\ y <= MaxYear

\* the common tail "if 1800 <= year_int <= 2000: return year_int" + "return None"
CheckedYear(y) == IF YearInRange(y) THEN YearInt(y) ELSE YearNone(0)

\* after the except clause / the last if: "Could not parse year" is logged
CouldNotParse == YearNone(1)

\* a ValueError inside the try: "Error parsing year" and "Could not parse year"
CaughtValueError == YearNone(2)

TAbout == <<"a", "b", "o", "u", "t">>
TCDot == <<"c", ".">>
TOr == <<" ", "o", "r", " ">>
TSlash == <<"/">>
TDash == <<"-">>
TNan == <<"n", "a", "n">>
TInf == <<"i", "n", "f">>
TInfinity == <<"i", "n", "f", "i", "n", "i", "t", "y">>

\* the value of the whole number m * 10^e, capped like DigitsToNat
WholeValue(x) ==
    IF x.e < 0 THEN x.m \div 10
    ELSE IF x.e = 0 THEN x.m
    ELSE IF x.m > 0 THEN NatCap
    ELSE IF x.m < 0 THEN 0 - NatCap
    ELSE 0

\* faulty variant: no test for the infinities before int(year_float)
clean_year_number_noinf(year) ==
    IF pd_isna(year) THEN YearNone(0)
    ELSE IF year.k \in {"inf", "ninf"} THEN YearRaise("OverflowError")
    ELSE IF FloatOverflows(year) THEN YearRaise("OverflowError")
    ELSE IF is_integer(year) THEN CheckedYear(WholeValue(year))
    ELSE YearNone(0)

\* lines 145-157: the isinstance(year, (int, float)) branch
clean_year_number(year) ==
    IF pd_isna(year) THEN YearNone(0)
    ELSE IF year.k \in {"inf", "ninf", "nan"} THEN YearNone(0)
    ELSE IF FloatOverflows(year) THEN YearRaise("OverflowError")
    ELSE IF is_integer(year) THEN CheckedYear(WholeValue(year))
    ELSE YearNone(0)

\* faulty variant: the age is not subtracted from the census year but the reverse
clean_year_age_reversed(year_str) ==
    IF Search4(year_str) # 0 /\ YearInRange(Search4Value(year_str))
    THEN YearInt(Search4Value(year_str))
    ELSE LET a == SearchAge(year_str)
         IN  IF a.found /\ YearInRange(CensusYear + a.age)
             THEN YearInt(CensusYear + a.age)
             ELSE YearNone(0)

\* lines 167-184: 'age' in year_str
clean_year_age(year_str) ==
    IF Search4(year_str) # 0 /\ YearInRange(Search4Value(year_str))
    THEN YearInt(Search4Value(year_str))
    ELSE LET a == SearchAge(year_str)
         IN  IF a.found /\ YearInRange(CensusYear - a.age)
             THEN YearInt(CensusYear - a.age)
             ELSE YearNone(0)

\* lines 187-193 and 196-203: the first run of four digits of s, range-checked
clean_year_embedded(s) ==
    IF Search4(s) # 0 THEN CheckedYear(Search4Value(s)) ELSE YearNone(0)

\* faulty variant: the text after the first slash is taken
clean_year_slash_second(year_str) ==
    LET i == Len(SplitFirst(year_str, TSlash)) + 2
        base_year == SubSeq(year_str, i, Len(year_str))
    IN  IF DigitsAt(base_year, 1, 4)
        THEN IF py_int(base_year).ok THEN CheckedYear(py_int(base_year).v) ELSE CaughtValueError
        ELSE YearNone(0)

\* lines 206-212: the text before the first slash
clean_year_slash(year_str) ==
    LET base_year == SplitFirst(year_str, TSlash)
    IN  IF DigitsAt(base_year, 1, 4)
        THEN IF py_int(base_year).ok THEN CheckedYear(py_int(base_year).v) ELSE CaughtValueError
        ELSE YearNone(0)

\* lines 160-225: the text branch
clean_year_text(year) ==
    LET year_str == Lower(Strip(py_str(year)))
    IN  IF year_str = <<>> \/ year_str = TNan
           \/ year_str \in {TInf, <<"-">> \o TInf, TInfinity, <<"-">> \o TInfinity}
        THEN YearNone(0)
        ELSE IF Contains(year_str, TAge) THEN clean_year_age(year_str)
        ELSE IF Contains(year_str, TAbout) \/ Contains(year_str, TCDot)
             THEN clean_year_embedded(year_str)
        ELSE IF Contains(year_str, TOr) THEN clean_year_embedded(SplitFirst(year_str, TOr))
        ELSE IF Contains(year_str, TSlash) THEN clean_year_slash(year_str)
        ELSE IF MatchIsoDate(year_str) THEN CheckedYear(DigitsToNat(SubSeq(year_str, 1, 4)))
        ELSE IF MatchSimpleYear(year_str) /\ YearInRange(DigitsToNat(SubSeq(year_str, 1, 4)))
             THEN YearInt(DigitsToNat(SubSeq(year_str, 1, 4)))
        ELSE CouldNotParse

\* clean_year(year)
clean_year(year) ==
    IF pd_isna(year) THEN YearNone(0)
    ELSE IF IsNumber(year) THEN clean_year_number(year)
    ELSE clean_year_text(year)

----------------------------------------------------------------------------
(* The year field of one row: DataImporter.validate_and_clean_dataframe    *)

TEstimatedFromAge == "estimated_from_age"

NoField == [failed |-> FALSE, k |-> "unset", v |-> 0, uncertain |-> FALSE, type |-> "None",
            hastext |-> FALSE, text |-> NoText]

\* faulty variant: the flag is set only when a year was estimated, the type
\* whenever the text mentions an age
AssembleYear_flag_apart(value) ==
    LET cleaned == IF pd_isna(value) THEN YearNone(0) ELSE clean_year(value)
        from_age == ~pd_isna(value) /\ Contains(Lower(py_str(value)), TAge)
    IN  IF cleaned.k = "raise"
        THEN [NoField EXCEPT !.failed = TRUE, !.k = "raise"]
        ELSE [failed |-> FALSE, k |-> cleaned.k, v |-> cleaned.v,
              uncertain |-> from_age /\ cleaned.k = "int",
              type |-> IF from_age THEN TEstimatedFromAge ELSE "None",
              hastext |-> ~pd_isna(value),
              text |-> IF pd_isna(value) THEN NoText ELSE py_str(value)]

\* lines 635-652: one pass of the loop over df['year_of_birth']; a cleaner
\* that raises ends validate_and_clean_dataframe (lines 720-722)
AssembleYear(value) ==
    LET cleaned == IF pd_isna(value) THEN YearNone(0) ELSE clean_year(value)
        from_age == ~pd_isna(value) /\ Contains(Lower(py_str(value)), TAge)
    IN  IF cleaned.k = "raise"
        THEN [NoField EXCEPT !.failed = TRUE, !.k = "raise"]
        ELSE [failed |-> FALSE, k |-> cleaned.k, v |-> cleaned.v,
              uncertain |-> from_age,
              type |-> IF from_age THEN TEstimatedFromAge ELSE "None",
              hastext |-> ~pd_isna(value),
              text |-> IF pd_isna(value) THEN NoText ELSE py_str(value)]

----------------------------------------------------------------------------
(* Inputs of the year pipeline                                             *)

\* how far beyond [MinYear, MaxYear] the probed years reach
ProbeMargin == 5
\* the ages probed: 0..MaxAge
MaxAge == 120
\* the longest free text, in tokens
MaxYearTokens == 3
\* decimal exponent of the int that lies beyond the double range
BigExp == 400

YearProbes == ((MinYear - ProbeMargin)..(MaxYear + ProbeMargin)) \cup {0, 7, 999, 1000, 3000, 9999, 18905}

ZProbes == {1000, 1891, 9999}

\* (MM, DD) pairs of the 'y-MM-DD' shape; the pattern asks for digits only
IsoTails == {<<1, 1>>, <<12, 31>>, <<13, 45>>}

Src(shape, y, z) == [shape |-> shape, y |-> y, z |-> z]

In(shape, y, z, val) == [src |-> Src(shape, y, z), val |-> val]

\* the same text as typed, in capitals, and padded with blanks
Variants(t) == {t, Upper(t), <<" ">> \o t \o <<" ", "\t">>}

SentinelTexts == {NoText, <<" ", " ">>, TNan, TInf, <<"-">> \o TInf, TInfinity, <<"-">> \o TInfinity}

YearTokens == {TAge, <<" ">>, <<"c", ".", " ">>, TOr, TSlash, TDash,
               <<"1", "8", "9", "0">>, <<"1", "7", "9", "9">>, <<"1", "0">>, <<"x">>, <<".", "0">>}

FreeTexts(tokens, n) == UNION {{Cat(f) : f \in [1..k -> tokens]} : k \in 1..n}

YearInputs ==
    {In("None", 0, 0, PyNone), In("nan", 0, 0, PyNaN),
     In("inf", 0, 0, PyInf), In("ninf", 0, 0, PyNegInf),
     In("bigint", 0, 0, PyIntExp(1, BigExp)), In("bigint", 0, 0, PyIntExp(-1, BigExp)),
     In("bigfloat", 0, 0, PyFloat(1, FloatMaxDigits - 9))}
    \cup {In("int", y, 0, PyInt(y)) : y \in YearProbes \cup {-1890}}
    \cup {In("float", y, 0, PyFloat(y, 0)) : y \in YearProbes}
    \cup {In("fraction", y, 0, PyFloat(10 * y + 5, -1)) : y \in YearProbes}
    \cup {In("str", y, 0, PyStr(IntToStr(y))) : y \in YearProbes}
    \cup {In("str.0", y, 0, PyStr(IntToStr(y) \o <<".", "0">>)) : y \in YearProbes}
    \cup UNION {{In("about", y, 0, PyStr(v)) : v \in Variants(TAbout \o <<" ">> \o IntToStr(y))} :
                  y \in YearProbes}
    \cup {In("c.", y, 0, PyStr(<<"c", ".", " ">> \o IntToStr(y))) : y \in YearProbes}
    \cup {In("or", y, z, PyStr(IntToStr(y) \o TOr \o IntToStr(z))) : y \in YearProbes, z \in ZProbes}
    \cup {In("slash", y, z, PyStr(IntToStr(y) \o TSlash \o IntToStr(z))) : y \in YearProbes, z \in ZProbes}
    \cup {In("iso", y, 0, PyStr(IntToStr(y) \o TDash \o TwoDigits(md[1]) \o TDash \o TwoDigits(md[2]))) :
             y \in YearProbes, md \in IsoTails}
    \cup UNION {{In("age", n, 0, PyStr(v)) : v \in Variants(<<"a", "g", "e", " ">> \o IntToStr(n))} : n \in 0..MaxAge}
    \cup {In("age", n, 0, PyStr(TAge \o IntToStr(n))) : n \in 0..MaxAge}
    \cup {In("sentinel", 0, 0, PyStr(v)) : v \in UNION {Variants(t) : t \in SentinelTexts}}
    \cup {In("free", 0, 0, PyStr(v)) : v \in FreeTexts(YearTokens, MaxYearTokens)}

----------------------------------------------------------------------------
(* DataProcessor.clean_date / _parse_date (the same text in DataImporter)  *)

\* a datetime: the calendar date and the seconds after midnight
NoDate == [has |-> FALSE, y |-> 0, m |-> 0, d |-> 0, t |-> 0]
DateTime(y, m, d, t) == [has |-> TRUE, y |-> y, m |-> m, d |-> d, t |-> t]
Date(y, m, d) == DateTime(y, m, d, 0)

\* the triple clean_date returns, and the warnings it logged
DateResult(date, unc, typ, w) == [date |-> date, uncertain |-> unc, type |-> typ, warn |-> w]

NullTriple == DateResult(NoDate, FALSE, "None", 0)

IsLeap(y) == (y % 4 = 0 /\ y % 100 # 0) \/ y % 400 = 0

DaysInMonth(y, m) ==
    IF m = 2 THEN (IF IsLeap(y) THEN 29 ELSE 28)
    ELSE IF m \in {4, 6, 9, 11} THEN 30 ELSE 31

\* datetime(y, m, d) is a date: otherwise strptime raises ValueError
ValidDate(y, m, d) == y >= 1 /\ m \in 1..12 /\ d >= 1 /\ d <= DaysInMonth(y, m)

\* strptime's %m: 1[0-2]|0[1-9]|[1-9]
IsMonthText(s) ==
    \/ Len(s) = 1 /\ IsDigit(s[1]) /\ s[1] # "0"
    \/ Len(s) = 2 /\ s[1] = "0" /\ IsDigit(s[2]) /\ s[2] # "0"
    \/ Len(s) = 2 /\ s[1] = "1" /\ s[2] \in {"0", "1", "2"}

\* strptime's %d: 3[0-1]|[1-2]\d|0[1-9]|[1-9]| [1-9]
IsDayText(s) ==
    \/ Len(s) = 1 /\ IsDigit(s[1]) /\ s[1] # "0"
    \/ Len(s) = 2 /\ s[1] \in {"0", " "} /\ IsDigit(s[2]) /\ s[2] # "0"
    \/ Len(s) = 2 /\ s[1] \in {"1", "2"} /\ IsDigit(s[2])
    \/ Len(s) = 2 /\ s[1] = "3" /\ s[2] \in {"0", "1"}

\* strptime's %Y: \d\d\d\d
IsYearText(s) == Len(s) = 4 /\ AllDigits(s)

\* the positions of the separator c in s
SepPositions(s, c) == {i \in DOMAIN s : s[i] = c}

\* the value of a %m or %d field
FieldVal(s) == DigitsToNat(IF s[1] = " " THEN Tail(s) ELSE s)

NoParse == [ok |-> FALSE, date |-> NoDate]

\* three fields a<sep>b<sep>c read in the order given by kinds, e.g. <<"Y","m","d">>
ParseThree(s, c, kinds) ==
    LET P == SepPositions(s, c)
    IN  IF Cardinality(P) # 2 THEN NoParse
        ELSE LET i == CHOOSE i \in P : \A j \in P : i <= j
                 j == CHOOSE j \in P : \A k \in P : k <= j
                 f == <<SubSeq(s, 1, i - 1), SubSeq(s, i + 1, j - 1), SubSeq(s, j + 1, Len(s))>>
                 fits(k) == CASE kinds[k] = "Y" -> IsYearText(f[k])
                              [] kinds[k] = "m" -> IsMonthText(f[k])
                              [] kinds[k] = "d" -> IsDayText(f[k])
                 at(kind) == f[CHOOSE k \in 1..3 : kinds[k] = kind]
             IN  IF fits(1) /\ fits(2) /\ fits(3)
                    /\ ValidDate(DigitsToNat(at("Y")), FieldVal(at("m")), FieldVal(at("d")))
                 THEN [ok |-> TRUE,
                       date |-> Date(DigitsToNat(at("Y")), FieldVal(at("m")), FieldVal(at("d")))]
                 ELSE NoParse

\* '%Y<sep>%m'
ParseYearMonth(s, c) ==
    LET P == SepPositions(s, c)
    IN  IF Cardinality(P) # 1 THEN NoParse
        ELSE LET i == CHOOSE i \in P : TRUE
                 ytext == SubSeq(s, 1, i - 1)
                 mtext == SubSeq(s, i + 1, Len(s))
             IN  IF IsYearText(ytext) /\ IsMonthText(mtext) /\ DigitsToNat(ytext) >= 1
                 THEN [ok |-> TRUE, date |-> Date(DigitsToNat(ytext), FieldVal(mtext), 1)]
                 ELSE NoParse

\* '%Y'
ParseYearOnly(s) ==
    IF IsYearText(s) /\ DigitsToNat(s) >= 1
    THEN [ok |-> TRUE, date |-> Date(DigitsToNat(s), 1, 1)]
    ELSE NoParse

\* date_formats, line 87-90, in order
NumFormats == 7

\* datetime.strptime(s, date_formats[k]); ok = FALSE stands for ValueError
strptime(s, k) ==
    CASE k = 1 -> ParseThree(s, "-", <<"Y", "m", "d">>)
      [] k = 2 -> ParseThree(s, "/", <<"Y", "m", "d">>)
      [] k = 3 -> ParseThree(s, "/", <<"m", "d", "Y">>)
      [] k = 4 -> ParseThree(s, "/", <<"d", "m", "Y">>)
      [] k = 5 -> ParseYearMonth(s, "-")
      [] k = 6 -> ParseYearMonth(s, "/")
      [] k = 7 -> ParseYearOnly(s)

\* the formats that parse s to a date whose year is in range
AcceptingFormats(s) ==
    {k \in 1..NumFormats : LET r == strptime(s, k) IN r.ok /\ YearInRange(r.date.y)}

TCirca == <<"c", "i", "r", "c", "a">>
TBefore == <<"b", "e", "f", "o", "r", "e">>
TAfter == <<"a", "f", "t", "e", "r">>
TEarly == <<"e", "a", "r", "l", "y">>
TMid == <<"m", "i", "d">>
TLate == <<"l", "a", "t", "e">>

\* qualifiers, line 78, in order
Qualifiers == <<TAbout, TCDot, TCirca, TBefore, TAfter, TEarly, TMid, TLate>>

\* regex \b between s[i-1] and s[i]
WordBoundary(s, i) ==
    (i - 1 >= 1 /\ i - 1 <= Len(s) /\ IsWord(s[i - 1])) # (i >= 1 /\ i <= Len(s) /\ IsWord(s[i]))

\* rf'\b{q}\b' with re.IGNORECASE matches at i; the '.' of 'c.' is not
\* escaped and stands for any character but a newline
QualifierAt(s, i, q) ==
    /\ i + Len(q) - 1 <= Len(s)
    /\ \A j \in 1..Len(q) :
          IF q[j] = "." THEN s[i + j - 1] # "\n" ELSE LowerChar(s[i + j - 1]) = q[j]
    /\ WordBoundary(s, i)
    /\ WordBoundary(s, i + Len(q))

RECURSIVE RemoveQualifier(_, _, _)
\* re.sub(rf'\b{q}\b', '', s, flags=re.IGNORECASE), from position i on
RemoveQualifier(s, i, q) ==
    IF i > Len(s) THEN <<>>
    ELSE IF QualifierAt(s, i, q) THEN RemoveQualifier(s, i + Len(q), q)
    ELSE <<s[i]>> \o RemoveQualifier(s, i + 1, q)

\* lines 78-84: the text with the first listed qualifier it contains removed
StripQualifier(date_str) ==
    LET present == {k \in DOMAIN Qualifiers : Contains(Lower(date_str), Qualifiers[k])}
    IN  IF present = {} THEN date_str
        ELSE Strip(RemoveQualifier(date_str, 1, Qualifiers[CHOOSE k \in present : \A j \in present : k <= j]))

\* what pd.to_datetime(text, errors='coerce') can give: no date, a timestamp
\* (with or without a time of day), or an exception; the parser is not part of
\* the repository
FlexOutcomes == {"NaT", "before1800", "in_range", "near_epoch", "after2000", "ValueError", "Exception"}

FlexDate(fx) ==
    CASE fx = "before1800" -> Date(MinYear - 1, 12, 31)
      [] fx = "in_range" -> Date(1990, 6, 5)
      [] fx = "near_epoch" -> DateTime(1970, 1, 1, 1)
      [] fx = "after2000" -> Date(MaxYear + 1, 1, 1)
      [] OTHER -> NoDate

\* faulty variant: the last format that parses to an in-range year wins
ParseByFormat_last(cleaned) ==
    LET ok == AcceptingFormats(cleaned)
    IN  IF ok = {} THEN NoParse
        ELSE strptime(cleaned, CHOOSE k \in ok : \A j \in ok : j <= k)

\* lines 92-98: the first format that parses to an in-range year
ParseByFormat(cleaned) ==
    LET ok == AcceptingFormats(cleaned)
    IN  IF ok = {} THEN NoParse
        ELSE strptime(cleaned, CHOOSE k \in ok : \A j \in ok : k <= j)

\* lines 101-105: the first run of four digits, as 1 January of that year
ParseByYear(cleaned) ==
    IF Search4(cleaned) # 0 /\ YearInRange(Search4Value(cleaned))
    THEN [ok |-> TRUE, date |-> Date(Search4Value(cleaned), 1, 1)]
    ELSE NoParse

\* faulty variant: a flexible parse that gives no date resets the flag and type
ParseFlexible_reset(fx, is_uncertain, uncertainty_type) ==
    IF fx = "Exception" THEN DateResult(NoDate, FALSE, "None", 2)
    ELSE IF fx \notin {"NaT", "ValueError"} /\ YearInRange(FlexDate(fx).y)
    THEN DateResult(FlexDate(fx), is_uncertain, uncertainty_type, 0)
    ELSE NullTriple

\* lines 108-119: the flexible parse, whose outcome is fx
ParseFlexible(fx, is_uncertain, uncertainty_type) ==
    IF fx = "NaT" THEN DateResult(NoDate, is_uncertain, uncertainty_type, 0)
    ELSE IF fx = "Exception" THEN DateResult(NoDate, FALSE, "None", 2)
    ELSE IF fx = "ValueError" THEN NullTriple
    ELSE IF YearInRange(FlexDate(fx).y) THEN DateResult(FlexDate(fx), is_uncertain, uncertainty_type, 0)
    ELSE NullTriple

\* the flexible parse is reached for this text
NeedsFlexible(date_str) ==
    LET cleaned == StripQualifier(Strip(date_str))
    IN  ~ParseByFormat(cleaned).ok /\ ~ParseByYear(cleaned).ok

\* _parse_date(date_str, is_uncertain, uncertainty_type)
parse_date(date_str, is_uncertain, uncertainty_type, fx) ==
    LET cleaned == StripQualifier(Strip(date_str))
        by_format == ParseByFormat(cleaned)
        by_year == ParseByYear(cleaned)
    IN  IF by_format.ok THEN DateResult(by_format.date, is_uncertain, uncertainty_type, 0)
        ELSE IF by_year.ok THEN DateResult(by_year.date, is_uncertain, uncertainty_type, 0)
        ELSE ParseFlexible(fx, is_uncertain, uncertainty_type)

TNone == <<"n", "o", "n", "e">>
TNull == <<"n", "u", "l", "l">>
TNat == <<"n", "a", "t">>
TSemi == <<";">>

\* re.match(r'\d{4}-\d{4}', s)
MatchYearRange(s) == DigitsAt(s, 1, 4) /\ StartsAt(s, 5, TDash) /\ DigitsAt(s, 6, 4)

\* faulty variant: 'before' is looked for ahead of 'about', 'c.' and 'circa'
Classify_before_first(date_str) ==
    LET low == Lower(date_str)
    IN  IF Contains(date_str, TSemi)
        THEN [text |-> Strip(SplitFirst(date_str, TSemi)), uncertain |-> TRUE, type |-> "multiple_dates"]
        ELSE IF MatchYearRange(date_str)
        THEN [text |-> SplitFirst(date_str, TDash), uncertain |-> TRUE, type |-> "range"]
        ELSE IF Contains(low, TBefore)
        THEN [text |-> date_str, uncertain |-> TRUE, type |-> "before"]
        ELSE IF Contains(low, TAbout) \/ Contains(low, TCDot) \/ Contains(low, TCirca)
        THEN [text |-> date_str, uncertain |-> TRUE, type |-> "approximate"]
        ELSE IF Contains(low, TAfter)
        THEN [text |-> date_str, uncertain |-> TRUE, type |-> "after"]
        ELSE IF Contains(low, TEarly) \/ Contains(low, TMid) \/ Contains(low, TLate)
        THEN [text |-> date_str, uncertain |-> TRUE, type |-> "period_qualifier"]
        ELSE [text |-> date_str, uncertain |-> FALSE, type |-> "None"]

\* lines 39-64: the text handed to _parse_date and the flag and type that go with it
Classify(date_str) ==
    LET low == Lower(date_str)
    IN  IF Contains(date_str, TSemi)
        THEN [text |-> Strip(SplitFirst(date_str, TSemi)), uncertain |-> TRUE, type |-> "multiple_dates"]
        ELSE IF MatchYearRange(date_str)
        THEN [text |-> SplitFirst(date_str, TDash), uncertain |-> TRUE, type |-> "range"]
        ELSE IF Contains(low, TAbout) \/ Contains(low, TCDot) \/ Contains(low, TCirca)
        THEN [text |-> date_str, uncertain |-> TRUE, type |-> "approximate"]
        ELSE IF Contains(low, TBefore)
        THEN [text |-> date_str, uncertain |-> TRUE, type |-> "before"]
        ELSE IF Contains(low, TAfter)
        THEN [text |-> date_str, uncertain |-> TRUE, type |-> "after"]
        ELSE IF Contains(low, TEarly) \/ Contains(low, TMid) \/ Contains(low, TLate)
        THEN [text |-> date_str, uncertain |-> TRUE, type |-> "period_qualifier"]
        ELSE [text |-> date_str, uncertain |-> FALSE, type |-> "None"]

\* faulty variant: the null words are compared without lower-casing
IsNullLike_cased(value) ==
    \/ pd_isna(value)
    \/ Strip(py_str(value)) \in {NoText, TNan, TNone, TNull, TNat}

\* lines 30-37: the inputs answered without parsing
IsNullLike(value) ==
    \/ pd_isna(value)
    \/ Lower(Strip(py_str(value))) \in {NoText, TNan, TNone, TNull, TNat}

\* clean_date(date_str); fx is the outcome of the flexible parse if it is reached
clean_date(value, fx) ==
    IF IsNullLike(value) THEN NullTriple
    ELSE LET c == Classify(Strip(py_str(value)))
         IN  parse_date(c.text, c.uncertain, c.type, fx)

\* the flexible parse is reached by clean_date(value)
ReachesFlexible(value) ==
    ~IsNullLike(value) /\ NeedsFlexible(Classify(Strip(py_str(value))).text)

----------------------------------------------------------------------------
(* Dates on their way to storage                                           *)

\* days from 1970-01-01 to the date (proleptic Gregorian calendar)
DaysFromCivil(y, m, d) ==
    LET yy == IF m <= 2 THEN y - 1 ELSE y
        era == yy \div 400
        yoe == yy - era * 400
        doy == (153 * (IF m > 2 THEN m - 3 ELSE m + 9) + 2) \div 5 + d - 1
        doe == yoe * 365 + yoe \div 4 - yoe \div 100 + doy
    IN  era * 146097 + doe - 719468

\* the date that lies n days from 1970-01-01
CivilFromDays(n) ==
    LET z == n + 719468
        era == z \div 146097
        doe == z - era * 146097
        yoe == (doe - doe \div 1460 + doe \div 36524 - doe \div 146096) \div 365
        doy == doe - (365 * yoe + yoe \div 4 - yoe \div 100)
        mp == (5 * doy + 2) \div 153
        d == doy - (153 * mp + 2) \div 5 + 1
        m == IF mp < 10 THEN mp + 3 ELSE mp - 9
    IN  Date(IF m <= 2 THEN yoe + era * 400 + 1 ELSE yoe + era * 400, m, d)

\* A number too wide for TLC's integers is kept as m * 10^e.
Dec(m, e) == [m |-> m, e |-> e]

Abs(n) == IF n < 0 THEN 0 - n ELSE n

RECURSIVE Pow10(_)
Pow10(k) == IF k <= 0 THEN 1 ELSE 10 * Pow10(k - 1)

\* the position of the leading digit of |a|: floor(log10 |a|) + 1
Magnitude(a) == Len(NatToStr(Abs(a.m))) + a.e

\* a < b for numbers m * 10^e
DecLess(a, b) ==
    IF a.m = 0 \/ b.m = 0 THEN (IF a.m = 0 THEN b.m > 0 ELSE a.m < 0)
    ELSE IF (a.m < 0) # (b.m < 0) THEN a.m < 0
    ELSE IF Magnitude(a) # Magnitude(b)
         THEN (IF a.m < 0 THEN Magnitude(a) > Magnitude(b) ELSE Magnitude(a) < Magnitude(b))
    ELSE IF a.e >= b.e THEN a.m * Pow10(a.e - b.e) < b.m
    ELSE a.m < b.m * Pow10(b.e - a.e)

DecLeq(a, b) == ~DecLess(b, a)

\* a / 1000
DecDivThousand(a) == Dec(a.m, a.e - 3)

\* whole days in a number of seconds that fits the timestamp range
SecondsToDays(a) ==
    IF a.e >= 2 THEN (a.m * Pow10(a.e - 2)) \div 864 ELSE (a.m * Pow10(a.e)) \div 86400

\* a cell of the cleaned table: null (None, NaN, NaT), a datetime, or a number
NullCell == [k |-> "null", date |-> NoDate, n |-> Dec(0, 0)]
DateCell(date) == [k |-> "datetime", date |-> date, n |-> Dec(0, 0)]
NumCell(n) == [k |-> "number", date |-> NoDate, n |-> n]

\* the int64 behind a datetime64[ns] value: nanoseconds since 1970-01-01
\* (864 * 10^11 to the day); NaT is the smallest int64, about -9.22 * 10^18.
\* A time of day is carried only by timestamps near enough to 1970 for the
\* count of seconds to fit TLC's integers.
NanosOf(date) ==
    IF ~date.has THEN Dec(0 - 922337203, 10)
    ELSE IF date.t = 0 THEN Dec(DaysFromCivil(date.y, date.m, date.d) * 864, 11)
    ELSE Dec(DaysFromCivil(date.y, date.m, date.d) * 86400 + date.t, 9)

\* what pd.to_numeric(df[column], errors='coerce') leaves in the cell: the
\* datetime objects of an object column unchanged or as NaN, the values of a
\* datetime64 column as their int64
NumericOutcomes == {"unchanged", "coerced", "int64"}

\* lines 667-683: the type check of a date column never finds one of the
\* expected types (it tests the type object, not the value) and hands the
\* column to pd.to_numeric
ValidateDateCell(date, outcome) ==
    CASE outcome = "unchanged" -> (IF date.has THEN DateCell(date) ELSE NullCell)
      [] outcome = "coerced" -> NullCell
      [] outcome = "int64" -> NumCell(NanosOf(date))

\* pd.Timestamp('1800-01-01').timestamp() and pd.Timestamp('2100-01-01').timestamp()
min_timestamp == Dec(DaysFromCivil(MinYear, 1, 1) * 864, 2)
max_timestamp == Dec(DaysFromCivil(2100, 1, 1) * 864, 2)

\* lines 919-955 (and 957-993): the date handed to the INSERT statement
StorageDate(cell) ==
    IF cell.k = "null" THEN NoDate
    ELSE IF cell.k = "number"
    THEN IF DecLess(Dec(1, 10), cell.n)
         THEN IF DecLeq(min_timestamp, DecDivThousand(cell.n)) /\ DecLeq(DecDivThousand(cell.n), max_timestamp)
              THEN CivilFromDays(SecondsToDays(DecDivThousand(cell.n)))
              ELSE NoDate
         ELSE IF DecLeq(min_timestamp, cell.n) /\ DecLeq(cell.n, max_timestamp)
              THEN CivilFromDays(SecondsToDays(cell.n))
              ELSE NoDate
    ELSE Date(cell.date.y, cell.date.m, cell.date.d)

\* lines 614-627: one pass of the loop over a date column
AssembleDate(value, fx) ==
    LET r == clean_date(value, fx)
    IN  [date |-> r.date, uncertain |-> r.uncertain, type |-> r.type,
         hastext |-> ~pd_isna(value),
         text |-> IF pd_isna(value) THEN NoText ELSE py_str(value)]

NoDateField == [date |-> NoDate, uncertain |-> FALSE, type |-> "None", hastext |-> FALSE, text |-> NoText]

----------------------------------------------------------------------------
(* Inputs of the date pipeline                                             *)

\* the longest free date text, in tokens
MaxDateTokens == 2

DateYears == {MinYear - 1, MinYear, 1890, 1970, MaxYear, MaxYear + 1}

\* the date texts built around the year y: [shape, text]
DateChunks(y) ==
    LET yt == NatToStr(y)
    IN  {<<"Y-m-d", yt \o <<"-", "0", "1", "-", "0", "1">>>>,
         <<"Y/m/d", yt \o <<"/", "0", "1", "/", "0", "1">>>>,
         <<"m/d/Y", <<"0", "1", "/", "0", "2", "/">> \o yt>>,
         <<"d/m/Y", <<"1", "3", "/", "0", "2", "/">> \o yt>>,
         <<"badday", <<"0", "2", "/", "3", "0", "/">> \o yt>>,
         <<"leapday", yt \o <<"-", "0", "2", "-", "2", "9">>>>,
         <<"Y-m", yt \o <<"-", "0", "2">>>>,
         <<"Y/m", yt \o <<"/", "0", "2">>>>,
         <<"Y", yt>>,
         <<"month", <<"J", "u", "n", "e", " ">> \o yt>>,
         <<"range", yt \o <<"-", "1", "8", "9", "5">>>>}

\* date texts without a four-digit year
LooseChunks ==
    {<<"loose", <<"6", "/", "5", "/", "9", "0">>>>,
     <<"loose", <<"x", "y", "z">>>>,
     <<"loose", <<"0", "0", "0", "0">>>>}

AllChunks == UNION {DateChunks(y) : y \in DateYears} \cup LooseChunks

\* the chunks used where two parts are combined
FewChunks == DateChunks(1890) \cup {<<"Y", NatToStr(MaxYear + 1)>>} \cup LooseChunks

QualifierWords == {Qualifiers[k] : k \in DOMAIN Qualifiers}

\* a word as typed and capitalised
Cased(w) == {w, Upper(w)}

DFrom(shape, y, val) == [src |-> Src(shape, y, 0), val |-> val]

ChunkYear(c) == IF Len(c[2]) >= 4 /\ DigitsAt(c[2], 1, 4) THEN DigitsToNat(SubSeq(c[2], 1, 4))
                ELSE IF Search4(c[2]) # 0 THEN Search4Value(c[2]) ELSE 0

DateTokens == {TAbout, TCDot, TBefore, TAfter, TMid, <<" ">>, TSemi, TDash,
               <<"1", "8", "9", "0">>, <<"1", "7", "9", "9">>, <<"x">>,
               <<"1", "8", "9", "0", "-", "0", "1", "-", "0", "1">>}

DateInputs ==
    {DFrom("None", 0, PyNone), DFrom("nan", 0, PyNaN)}
    \cup {DFrom("nulltext", 0, PyStr(v)) : v \in UNION {Variants(w) : w \in {NoText, TNan, TNone, TNull, TNat}}}
    \cup {DFrom("int", y, PyInt(y)) : y \in DateYears}
    \cup {DFrom("float", y, PyFloat(y, 0)) : y \in DateYears}
    \cup {DFrom(c[1], ChunkYear(c), PyStr(c[2])) : c \in AllChunks}
    \cup {DFrom(c[1], ChunkYear(c), PyStr(<<" ">> \o c[2] \o <<" ">>)) : c \in AllChunks}
    \cup UNION {{DFrom("q+" \o c[1], ChunkYear(c), PyStr(qq \o <<" ">> \o c[2])) : qq \in Cased(q)} :
                  q \in QualifierWords, c \in AllChunks}
    \cup {DFrom("after+" \o c[1], ChunkYear(c), PyStr(c[2] \o <<" ">> \o q)) : q \in QualifierWords, c \in FewChunks}
    \cup {DFrom("qq+" \o c[1], ChunkYear(c), PyStr(q1 \o <<" ">> \o q2 \o <<" ">> \o c[2])) :
             q1 \in QualifierWords, q2 \in QualifierWords,
             c \in {<<"Y", <<"1", "8", "9", "0">>>>, <<"loose", <<"x", "y", "z">>>>}}
    \cup {DFrom("multi+" \o c[1], ChunkYear(c), PyStr(c[2] \o <<";", " ", "1", "8", "9", "0">>)) : c \in AllChunks}
    \cup {DFrom("multi+q+" \o c[1], ChunkYear(c), PyStr(q \o <<" ">> \o c[2] \o TSemi \o d[2])) :
             q \in QualifierWords, c \in FewChunks, d \in {<<"loose", <<"x", "y", "z">>>>}}
    \cup {DFrom("free", 0, PyStr(v)) : v \in FreeTexts(DateTokens, MaxDateTokens)}

----------------------------------------------------------------------------
(* The date pipeline as a state machine                                    *)

NoStore == [set |-> FALSE, date |-> NoDate]

YearVarsIdle ==
    /\ ypc = "off" /\ ysrc = Src("off", 0, 0) /\ yin = PyNone /\ yout = YearIdle /\ yfield = NoField

TextVarsIdle ==
    /\ tpc = "off" /\ tpath = "none" /\ tfield = "none"
    /\ tcell = PyNone /\ tval = PyNone /\ trec = PyNone

ColumnVarsIdle ==
    /\ cpc = "off" /\ cwho = "none" /\ cpath = NoText /\ chead = {}
    /\ cres = [failed |-> FALSE, count |-> 0, format |-> "none", mapping |-> {},
               table |-> {}, records |-> FALSE]

RunVarsIdle ==
    /\ rpc = "off" /\ rcmd = "none" /\ renv = [unset |-> "none", prior |-> <<>>]
    /\ rdb = [table |-> <<>>, txn |-> <<>>] /\ rrows = <<>> /\ rrecs = <<>> /\ ri = 1
    /\ rtrace = <<>> /\ rout = [msgs |-> <<>>, exit |-> "running", err |-> "none", warned |-> 0]

InitDate ==
    /\ dpc = "call"
    /\ \E inp \in DateInputs : dsrc = inp.src /\ din = inp.val
    /\ flex = "unused"
    /\ dout = NullTriple
    /\ dfield = NoDateField
    /\ dcell = NullCell
    /\ dstore = NoStore
    /\ YearVarsIdle /\ TextVarsIdle /\ ColumnVarsIdle /\ RunVarsIdle

\* a caller invokes clean_date(din); the flexible parse, if reached, gives fx
CleanDateCall ==
    /\ dpc = "call"
    /\ \E fx \in (IF ReachesFlexible(din) THEN FlexOutcomes ELSE {"unused"}) :
          /\ flex' = fx
          /\ dout' = clean_date(din, fx)
    /\ dpc' = "ret"
    /\ UNCHANGED <<dsrc, din, dfield, dcell, dstore>>
    /\ UNCHANGED otherThanDate

\* LincolnImporter._process_lincoln_data, lines 132-153: the date of the
\* record is the date clean_date returned, and insert_lincoln_records hands
\* it to the INSERT statement
ProcessLincolnRow ==
    /\ dpc = "ret"
    /\ dstore' = [set |-> TRUE, date |-> dout.date]
    /\ dpc' = "stored"
    /\ UNCHANGED <<dsrc, din, flex, dout, dfield, dcell>>
    /\ UNCHANGED otherThanDate

\* DataImporter.validate_and_clean_dataframe cleans the cell of a date column
AssembleDateField ==
    /\ dpc = "ret"
    /\ dfield' = AssembleDate(din, flex)
    /\ dpc' = "asm"
    /\ UNCHANGED <<dsrc, din, flex, dout, dcell, dstore>>
    /\ UNCHANGED otherThanDate

\* ... and runs the type check over the cleaned column
ValidateDateType ==
    /\ dpc = "asm"
    /\ \E outcome \in NumericOutcomes : dcell' = ValidateDateCell(dfield.date, outcome)
    /\ dpc' = "validated"
    /\ UNCHANGED <<dsrc, din, flex, dout, dfield, dstore>>
    /\ UNCHANGED otherThanDate

\* DataImporter.import_to_db converts the cell and executes the INSERT
ImportDateToDb ==
    /\ dpc = "validated"
    /\ dstore' = [set |-> TRUE, date |-> StorageDate(dcell)]
    /\ dpc' = "stored"
    /\ UNCHANGED <<dsrc, din, flex, dout, dfield, dcell>>
    /\ UNCHANGED otherThanDate

NextDate ==
    \/ CleanDateCall
    \/ ProcessLincolnRow
    \/ AssembleDateField
    \/ ValidateDateType
    \/ ImportDateToDb

SpecDate == InitDate /\ [][NextDate]_vars

----------------------------------------------------------------------------
(* The year pipeline as a state machine                                    *)

DateVarsIdle ==
    /\ dpc = "off" /\ dsrc = Src("off", 0, 0) /\ din = PyNone /\ flex = "unused"
    /\ dout = NullTriple /\ dfield = NoDateField /\ dcell = NullCell /\ dstore = NoStore

InitYear ==
    /\ ypc = "call"
    /\ \E inp \in YearInputs : ysrc = inp.src /\ yin = inp.val
    /\ yout = YearIdle
    /\ yfield = NoField
    /\ DateVarsIdle /\ TextVarsIdle /\ ColumnVarsIdle /\ RunVarsIdle

\* a caller invokes clean_year(yin)
CleanYearCall ==
    /\ ypc = "call"
    /\ yout' = clean_year(yin)
    /\ ypc' = "ret"
    /\ UNCHANGED <<ysrc, yin, yfield>>
    /\ UNCHANGED otherThanYear

\* validate_and_clean_dataframe cleans the same cell as a year_of_birth value
AssembleYearField ==
    /\ ypc = "ret"
    /\ yfield' = AssembleYear(yin)
    /\ ypc' = "asm"
    /\ UNCHANGED <<ysrc, yin, yout>>
    /\ UNCHANGED otherThanYear

NextYear == CleanYearCall \/ AssembleYearField

SpecYear == InitYear /\ [][NextYear]_vars

----------------------------------------------------------------------------
(* Text fields: clean_name and the truncation to the stored length         *)

\* the characters re.sub(r'[^\w\s\-\.]', '', ...) leaves in place
KeptByNameRegex(c) == IsWord(c) \/ IsSpace(c) \/ c \in {"-", "."}

\* clean_name(name): 'cleaned.strip() if cleaned else None'
clean_name(name) ==
    IF pd_isna(name) THEN PyNone
    ELSE LET cleaned == SelectSeq(py_str(name), KeptByNameRegex)
         IN  IF cleaned # NoText THEN PyStr(Strip(cleaned)) ELSE PyNone

\* a row without the column
Absent == [k |-> "absent", m |-> 0, e |-> 0, s |-> NoText]

\* row.get(column, default)
row_get(cell, default) == IF cell = Absent THEN default ELSE cell

\* 'x if name else None': None and '' are false
Truthy(v) == v # PyNone /\ v # PyStr(NoText)

StudentNameFields == {"indian_name", "family_name", "english_given_name"}

StudentTextFields ==
    {"census_record_1900", "indian_name", "family_name", "english_given_name", "alias",
     "sex", "nation", "band", "agency", "trade", "source", "comments", "cause_of_death",
     "cemetery_burial", "relevant_links"}

\* the slice bounds of the record built by _process_lincoln_data
LincolnLimit(f) ==
    CASE f = "census_record_1900" -> 100
      [] f = "sex" -> 1
      [] f \in {"indian_name", "source", "cause_of_death", "cemetery_burial"} -> 500
      [] f \in {"comments", "relevant_links"} -> 1000
      [] OTHER -> 200

\* 'str(name)[:n] if name else None'
SliceName(name, n) == IF Truthy(name) THEN PyStr(Prefix(py_str(name), n)) ELSE PyNone

\* "str(row.get(column, ''))[:n]"
SlicePlain(cell, n) == PyStr(Prefix(py_str(row_get(cell, PyStr(NoText))), n))

\* the field f of the record _process_lincoln_data builds from the row
LincolnRecordField(f, cell) ==
    IF f \in StudentNameFields
    THEN SliceName(clean_name(row_get(cell, PyNone)), LincolnLimit(f))
    ELSE SlicePlain(cell, LincolnLimit(f))

OrphanNameFields == {"family_name", "given_name"}

OrphanTextFields ==
    {"family_name", "given_name", "aliases", "scholarships", "assignments",
     "situation_1878", "references", "comments"}

\* the slice bounds of the record built by _process_orphans_data
OrphanLimit(f) ==
    CASE f \in OrphanNameFields -> 200
      [] f \in {"references", "comments"} -> 1000
      [] OTHER -> 500

\* the field f of the record _process_orphans_data builds from the row
OrphanRecordField(f, cell) ==
    IF f \in OrphanNameFields
    THEN SliceName(clean_name(row_get(cell, PyNone)), OrphanLimit(f))
    ELSE SlicePlain(cell, OrphanLimit(f))

\* column_specs[f]['clean'] of validate_and_clean_dataframe
ImporterClean(f, x) ==
    IF f \in StudentNameFields \cup {"alias"} THEN clean_name(x)
    ELSE IF pd_isna(x) THEN PyNone
    ELSE IF f = "sex" THEN PyStr(Upper(Strip(py_str(x))))
    ELSE PyStr(Strip(py_str(x)))

\* the columns import_to_db truncates; the others are TEXT columns
ImporterLimited ==
    {"census_record_1900", "indian_name", "family_name", "english_given_name", "alias",
     "sex", "nation", "band", "agency", "trade", "cemetery_burial"}

ImporterLimit(f) ==
    CASE f = "census_record_1900" -> 100
      [] f = "sex" -> 1
      [] f \in {"indian_name", "cemetery_burial"} -> 500
      [] OTHER -> 200

\* faulty variant: the value is handed on whole
truncate_string_whole(value, max_length) ==
    IF pd_isna(value) THEN PyNone ELSE PyStr(py_str(value))

\* truncate_string(value, max_length) of import_to_db
truncate_string(value, max_length) ==
    IF pd_isna(value) THEN PyNone
    ELSE LET str_value == py_str(value)
         IN  IF Len(str_value) > max_length
             THEN PyStr(Prefix(str_value, max_length))
             ELSE PyStr(str_value)

\* the value of field f import_to_db hands to the INSERT statement
ImporterStored(f, value) ==
    IF f \in ImporterLimited THEN truncate_string(value, ImporterLimit(f)) ELSE value

----------------------------------------------------------------------------
(* Cells of text columns                                                   *)

MaxNameTokens == 2

NameTokens == {<<"a">>, <<"B">>, <<"7">>, <<" ">>, <<"@">>, <<"_">>, <<"-">>, <<".">>}

\* a run of n letters
Long(n) == [i \in 1..n |-> "a"]

\* texts one short of, at and beyond each stored length, and one whose cut falls after a blank
LongTexts ==
    UNION {{Long(n - 1), Long(n), Long(n + 1), Long(n - 1) \o <<" ", "b">>} :
             n \in {1, 100, 200, 500, 1000}}

SampleTexts ==
    {NoText, <<" ", " ">>, <<" ", "@", " ">>, <<"@", "#">>,
     <<"J", "o", "h", "n", "@", "D", "o", "e">>, <<"J", "o", "h", "n", "-", "D", "o", "e">>,
     <<"J", "o", "h", "n", ".", "D", "o", "e">>, <<"J", "o", "h", "n", " ", "D", "o", "e">>,
     <<"J", "o", "h", "n", "_", "D", "o", "e">>, <<" ", "M", "a", "r", "y", "\t">>,
     <<"m", "a", "l", "e">>, <<"n", "a", "n">>}

TextCells ==
    {Absent, PyNone, PyNaN, PyInt(12), PyFloat(12, 0)}
    \cup {PyStr(s) : s \in SampleTexts \cup LongTexts \cup FreeTexts(NameTokens, MaxNameTokens)}

----------------------------------------------------------------------------
(* The text pipeline as a state machine                                    *)

InitText ==
    /\ tpc = "raw"
    /\ tpath = "none"
    /\ tfield \in StudentTextFields \cup OrphanTextFields
    /\ tcell \in TextCells
    /\ tval = PyNone
    /\ trec = PyNone
    /\ YearVarsIdle /\ DateVarsIdle /\ ColumnVarsIdle /\ RunVarsIdle

\* LincolnImporter._process_lincoln_data builds the field of the record
ProcessLincolnText ==
    /\ tpc = "raw" /\ tfield \in StudentTextFields
    /\ tpath' = "lincoln"
    /\ tval' = IF tfield \in StudentNameFields THEN clean_name(row_get(tcell, PyNone))
               ELSE row_get(tcell, PyStr(NoText))
    /\ trec' = LincolnRecordField(tfield, tcell)
    /\ tpc' = "rec"
    /\ UNCHANGED <<tfield, tcell>>
    /\ UNCHANGED otherThanText

\* LincolnImporter._process_orphans_data builds the field of the record
ProcessOrphansText ==
    /\ tpc = "raw" /\ tfield \in OrphanTextFields
    /\ tpath' = "orphans"
    /\ tval' = IF tfield \in OrphanNameFields THEN clean_name(row_get(tcell, PyNone))
               ELSE row_get(tcell, PyStr(NoText))
    /\ trec' = OrphanRecordField(tfield, tcell)
    /\ tpc' = "rec"
    /\ UNCHANGED <<tfield, tcell>>
    /\ UNCHANGED otherThanText

\* DataImporter.validate_and_clean_dataframe adds a missing column with None
\* and cleans the cell
CleanTextColumn ==
    /\ tpc = "raw" /\ tfield \in StudentTextFields
    /\ tpath' = "importer"
    /\ tval' = ImporterClean(tfield, row_get(tcell, PyNone))
    /\ tpc' = "cleaned"
    /\ UNCHANGED <<tfield, tcell, trec>>
    /\ UNCHANGED otherThanText

\* DataImporter.import_to_db truncates the cleaned value for the INSERT
TruncateForInsert ==
    /\ tpc = "cleaned"
    /\ trec' = ImporterStored(tfield, tval)
    /\ tpc' = "rec"
    /\ UNCHANGED <<tpath, tfield, tcell, tval>>
    /\ UNCHANGED otherThanText

NextText == ProcessLincolnText \/ ProcessOrphansText \/ CleanTextColumn \/ TruncateForInsert

SpecText == InitText /\ [][NextText]_vars

----------------------------------------------------------------------------
(* Column formats and their resolution                                     *)

\* the canonical field names and their characters
FieldText ==
    [census_record_1900 |->
        <<"c", "e", "n", "s", "u", "s", "_", "r", "e", "c", "o", "r", "d", "_", "1", "9", "0", "0">>,
     indian_name |->
        <<"i", "n", "d", "i", "a", "n", "_", "n", "a", "m", "e">>,
     family_name |->
        <<"f", "a", "m", "i", "l", "y", "_", "n", "a", "m", "e">>,
     english_given_name |->
        <<"e", "n", "g", "l", "i", "s", "h", "_", "g", "i", "v", "e", "n", "_", "n", "a", "m", "e">>,
     alias |->
        <<"a", "l", "i", "a", "s">>,
     sex |->
        <<"s", "e", "x">>,
     year_of_birth |->
        <<"y", "e", "a", "r", "_", "o", "f", "_", "b", "i", "r", "t", "h">>,
     arrival_at_lincoln |->
        <<"a", "r", "r", "i", "v", "a", "l", "_", "a", "t", "_", "l", "i", "n", "c", "o", "l", "n">>,
     departure_from_lincoln |->
        <<"d", "e", "p", "a", "r", "t", "u", "r", "e", "_", "f", "r", "o", "m", "_", "l", "i", "n", "c", "o", "l", "n">>,
     nation |->
        <<"n", "a", "t", "i", "o", "n">>,
     band |->
        <<"b", "a", "n", "d">>,
     agency |->
        <<"a", "g", "e", "n", "c", "y">>,
     trade |->
        <<"t", "r", "a", "d", "e">>,
     source |->
        <<"s", "o", "u", "r", "c", "e">>,
     comments |->
        <<"c", "o", "m", "m", "e", "n", "t", "s">>,
     cause_of_death |->
        <<"c", "a", "u", "s", "e", "_", "o", "f", "_", "d", "e", "a", "t", "h">>,
     cemetery_burial |->
        <<"c", "e", "m", "e", "t", "e", "r", "y", "_", "b", "u", "r", "i", "a", "l">>,
     relevant_links |->
        <<"r", "e", "l", "e", "v", "a", "n", "t", "_", "l", "i", "n", "k", "s">>]

\* an entry 'label': 'field' of a format
Entry(label, f) == <<label, FieldText[f]>>

\* 'spaced': spaces and proper capitalization
Spaced ==
    <<Entry(<<"C", "e", "n", "s", "u", "s", " ", "R", "e", "c", "o", "r", "d", " ", "1", "9", "0", "0">>,
            "census_record_1900"),
      Entry(<<"I", "n", "d", "i", "a", "n", " ", "N", "a", "m", "e">>, "indian_name"),
      Entry(<<"T", "r", "i", "b", "a", "l", " ", "N", "a", "m", "e">>, "indian_name"),
      Entry(<<"F", "a", "m", "i", "l", "y", " ", "N", "a", "m", "e">>, "family_name"),
      Entry(<<"E", "n", "g", "l", "i", "s", "h", " ", "g", "i", "v", "e", "n", " ", "n", "a", "m", "e">>,
            "english_given_name"),
      Entry(<<"A", "l", "i", "a", "s">>, "alias"),
      Entry(<<"S", "e", "x">>, "sex"),
      Entry(<<"Y", "e", "a", "r", " ", "o", "f", " ", "b", "i", "r", "t", "h">>, "year_of_birth"),
      Entry(<<"A", "r", "r", "i", "v", "a", "l", " ", "a", "t", " ", "L", "i", "n", "c", "o", "l", "n">>,
            "arrival_at_lincoln"),
      Entry(<<"D", "e", "p", "a", "r", "t", "u", "r", "e", " ", "f", "r", "o", "m", " ", "L", "i", "n", "c", "o", "l", "n">>,
            "departure_from_lincoln"),
      Entry(<<"N", "a", "t", "i", "o", "n">>, "nation"),
      Entry(<<"B", "a", "n", "d">>, "band"),
      Entry(<<"A", "g", "e", "n", "c", "y">>, "agency"),
      Entry(<<"T", "r", "a", "d", "e">>, "trade"),
      Entry(<<"S", "o", "u", "r", "c", "e">>, "source"),
      Entry(<<"C", "o", "m", "m", "e", "n", "t", "s">>, "comments"),
      Entry(<<"C", "a", "u", "s", "e", " ", "o", "f", " ", "D", "e", "a", "t", "h">>,
            "cause_of_death"),
      Entry(<<"C", "e", "m", "e", "t", "e", "r", "y", " ", "/", " ", "B", "u", "r", "i", "a", "l">>,
            "cemetery_burial"),
      Entry(<<"C", "e", "m", "e", "t", "e", "r", "y", " ", "/", " ", "B", "u", "r", "i", "a", "l", " ", "w", "i">>
            \o <<"t", "h", " ", "p", "r", "o", "t", "e", "c", "t", "i", "v", "e", " ", "q", "u", "o", "t", "e", "s">>,
            "cemetery_burial"),
      Entry(<<"R", "e", "l", "e", "v", "a", "n", "t", " ", "L", "i", "n", "k", "s">>,
            "relevant_links")>>

\* 'camel'
Camel ==
    <<Entry(<<"c", "e", "n", "s", "u", "s", "R", "e", "c", "o", "r", "d", "1", "9", "0", "0">>,
            "census_record_1900"),
      Entry(<<"t", "r", "i", "b", "a", "l", "N", "a", "m", "e">>, "indian_name"),
      Entry(<<"f", "a", "m", "i", "l", "y", "N", "a", "m", "e">>, "family_name"),
      Entry(<<"e", "n", "g", "l", "i", "s", "h", "G", "i", "v", "e", "n", "N", "a", "m", "e">>,
            "english_given_name"),
      Entry(<<"a", "l", "i", "a", "s">>, "alias"),
      Entry(<<"s", "e", "x">>, "sex"),
      Entry(<<"y", "e", "a", "r", "O", "f", "B", "i", "r", "t", "h">>, "year_of_birth"),
      Entry(<<"a", "r", "r", "i", "v", "a", "l", "A", "t", "L", "i", "n", "c", "o", "l", "n">>,
            "arrival_at_lincoln"),
      Entry(<<"d", "e", "p", "a", "r", "t", "u", "r", "e", "F", "r", "o", "m", "L", "i", "n", "c", "o", "l", "n">>,
            "departure_from_lincoln"),
      Entry(<<"n", "a", "t", "i", "o", "n">>, "nation"),
      Entry(<<"b", "a", "n", "d">>, "band"),
      Entry(<<"a", "g", "e", "n", "c", "y">>, "agency"),
      Entry(<<"t", "r", "a", "d", "e">>, "trade"),
      Entry(<<"s", "o", "u", "r", "c", "e">>, "source"),
      Entry(<<"c", "o", "m", "m", "e", "n", "t", "s">>, "comments"),
      Entry(<<"c", "a", "u", "s", "e", "O", "f", "D", "e", "a", "t", "h">>, "cause_of_death"),
      Entry(<<"c", "e", "m", "e", "t", "e", "r", "y", "B", "u", "r", "i", "a", "l">>,
            "cemetery_burial"),
      Entry(<<"r", "e", "l", "e", "v", "a", "n", "t", "L", "i", "n", "k", "s">>, "relevant_links")>>

\* 'underscore': each label is the canonical name
Underscore ==
    <<Entry(FieldText.census_record_1900, "census_record_1900"),
      Entry(FieldText.indian_name, "indian_name"),
      Entry(FieldText.family_name, "family_name"),
      Entry(FieldText.english_given_name, "english_given_name"),
      Entry(FieldText.alias, "alias"),
      Entry(FieldText.sex, "sex"),
      Entry(FieldText.year_of_birth, "year_of_birth"),
      Entry(FieldText.arrival_at_lincoln, "arrival_at_lincoln"),
      Entry(FieldText.departure_from_lincoln, "departure_from_lincoln"),
      Entry(FieldText.nation, "nation"),
      Entry(FieldText.band, "band"),
      Entry(FieldText.agency, "agency"),
      Entry(FieldText.trade, "trade"),
      Entry(FieldText.source, "source"),
      Entry(FieldText.comments, "comments"),
      Entry(FieldText.cause_of_death, "cause_of_death"),
      Entry(FieldText.cemetery_burial, "cemetery_burial"),
      Entry(FieldText.relevant_links, "relevant_links")>>

\* 'short'
Short ==
    <<Entry(<<"c", "e", "n", "s", "u", "s">>, "census_record_1900"),
      Entry(<<"t", "r", "i", "b", "a", "l">>, "indian_name"),
      Entry(<<"f", "a", "m", "i", "l", "y">>, "family_name"),
      Entry(<<"e", "n", "g", "l", "i", "s", "h">>, "english_given_name"),
      Entry(<<"a", "l", "i", "a", "s">>, "alias"),
      Entry(<<"s", "e", "x">>, "sex"),
      Entry(<<"b", "i", "r", "t", "h">>, "year_of_birth"),
      Entry(<<"a", "r", "r", "i", "v", "a", "l">>, "arrival_at_lincoln"),
      Entry(<<"d", "e", "p", "a", "r", "t", "u", "r", "e">>, "departure_from_lincoln"),
      Entry(<<"n", "a", "t", "i", "o", "n">>, "nation"),
      Entry(<<"b", "a", "n", "d">>, "band"),
      Entry(<<"a", "g", "e", "n", "c", "y">>, "agency"),
      Entry(<<"t", "r", "a", "d", "e">>, "trade"),
      Entry(<<"s", "o", "u", "r", "c", "e">>, "source"),
      Entry(<<"c", "o", "m", "m", "e", "n", "t", "s">>, "comments"),
      Entry(<<"d", "e", "a", "t", "h">>, "cause_of_death"),
      Entry(<<"b", "u", "r", "i", "a", "l">>, "cemetery_burial"),
      Entry(<<"l", "i", "n", "k", "s">>, "relevant_links")>>

\* 'reworked': the positional labels of Rewritten_Data.csv
Reworked ==
    <<Entry(<<"0">>, "indian_name"),
      Entry(<<"1">>, "family_name"),
      Entry(<<"2">>, "english_given_name"),
      Entry(<<"3">>, "alias"),
      Entry(<<"4">>, "sex"),
      Entry(<<"5">>, "year_of_birth"),
      Entry(<<"6">>, "arrival_at_lincoln"),
      Entry(<<"7">>, "departure_from_lincoln"),
      Entry(<<"8">>, "nation"),
      Entry(<<"9">>, "band"),
      Entry(<<"1", "0">>, "agency"),
      Entry(<<"1", "1">>, "trade"),
      Entry(<<"1", "2">>, "source"),
      Entry(<<"1", "3">>, "comments"),
      Entry(<<"1", "4">>, "cause_of_death"),
      Entry(<<"1", "5">>, "cemetery_burial"),
      Entry(<<"1", "6">>, "relevant_links")>>

\* the formats of DataImporter.validate_and_clean_dataframe, in dictionary order
column_mappings ==
    <<[name |-> "spaced", mapping |-> Spaced], [name |-> "camel", mapping |-> Camel],
      [name |-> "underscore", mapping |-> Underscore], [name |-> "short", mapping |-> Short],
      [name |-> "reworked", mapping |-> Reworked]>>

\* the formats of FileProcessor.get_column_mapping: the first three, with the same entries
file_processor_mappings == SubSeq(column_mappings, 1, 3)

\* mapping.keys()
Keys(mapping) == {mapping[i][1] : i \in DOMAIN mapping}

\* mapping.values()
Values(pairs) == {p[2] : p \in pairs}

\* file_path.endswith(suffix)
EndsWith(s, suffix) ==
    Len(s) >= Len(suffix) /\ SubSeq(s, Len(s) - Len(suffix) + 1, Len(s)) = suffix

TRewritten ==
    <<"R", "e", "w", "r", "i", "t", "t", "e", "n", "_", "D", "a", "t", "a", ".", "c", "s", "v">>

TUnnamed == <<"U", "n", "n", "a", "m", "e", "d", ":">>

\* .str.replace('"', '').str.replace("'", '')
RemoveQuotes(s) == SelectSeq(s, LAMBDA c : c \notin {"\"", "'"})

\* the name of the column of header h after lines 384 and 500
ImporterName(h) == Strip(RemoveQuotes(Strip(h)))

\* line 387: the columns that are kept
ImporterKept(heads) == {h \in heads : ~StartsAt(RemoveQuotes(Strip(h)), 1, TUnnamed)}

\* what a resolver has found so far, and what it returns
Found(count, format, mapping) ==
    [failed |-> FALSE, count |-> count, format |-> format, mapping |-> mapping,
     table |-> {}, records |-> FALSE]

NothingFound == Found(0, "none", {})

\* df.rename(columns=mapping) of one column name
Renamed(pairs, name) ==
    IF \E p \in pairs : p[1] = name THEN (CHOOSE p \in pairs : p[1] = name)[2] ELSE name

\* a column of a table: its name and the header whose cells it holds (null: a column of None)
Column(name, src) == [name |-> name, src |-> src, null |-> FALSE]
NullColumn(name) == [name |-> name, src |-> NoText, null |-> TRUE]

\* lines 516-519: the columns whose lower-cased name is a lower-cased label
MatchCount(heads, mapping) ==
    Cardinality({h \in heads : Lower(ImporterName(h)) \in {Lower(k) : k \in Keys(mapping)}})

RECURSIVE ExactLoop(_, _, _)
\* lines 515-525: the formats in order, a later one wins only with more matches
ExactLoop(heads, i, best) ==
    IF i > Len(column_mappings) THEN best
    ELSE LET match_count == MatchCount(heads, column_mappings[i].mapping)
         IN  ExactLoop(heads, i + 1,
                       IF match_count > best.count
                       THEN Found(match_count, column_mappings[i].name, Range(column_mappings[i].mapping))
                       ELSE best)

\* lines 533-536: partial_matches, the field of the last label that is part
\* of the column name or has the column name as a part
PartialMatches(heads, mapping) ==
    LET cols == {Lower(ImporterName(h)) : h \in heads}
        hits(col) == {i \in DOMAIN mapping :
                        \/ Contains(col, Lower(mapping[i][1]))
                        \/ Contains(Lower(mapping[i][1]), col)}
        last(col) == CHOOSE i \in hits(col) : \A j \in hits(col) : j <= i
    IN  {<<col, mapping[last(col)][2]>> : col \in {c \in cols : hits(c) # {}}}

RECURSIVE PartialLoop(_, _, _)
\* lines 529-541
PartialLoop(heads, i, best) ==
    IF i > Len(column_mappings) THEN best
    ELSE LET mapping == column_mappings[i].mapping
             partial_matches == PartialMatches(heads, mapping)
         IN  PartialLoop(heads, i + 1,
                         IF Cardinality(partial_matches) > best.count
                         THEN Found(Cardinality(partial_matches), column_mappings[i].name,
                                    {p \in Range(mapping) : p[2] \in Values(partial_matches)})
                         ELSE best)

\* lines 553-559: the renamed columns and the missing canonical columns, added with None
ImporterTable(heads, pairs) ==
    LET renamed == {Column(Renamed(pairs, ImporterName(h)), h) : h \in heads}
    IN  renamed \cup {NullColumn(f) : f \in {g \in Values(Range(Spaced)) :
                                               \A c \in renamed : c.name # g}}

\* validate_and_clean_dataframe, lines 384-559: the resolution of the columns
ResolveColumns(file_path, headers) ==
    LET heads == ImporterKept(headers)
        exact == IF EndsWith(file_path, TRewritten)
                 THEN Found(Cardinality(heads), "reworked", Range(Reworked))
                 ELSE ExactLoop(heads, 1, NothingFound)
        best == IF exact.count = 0 THEN PartialLoop(heads, 1, exact) ELSE exact
    IN  IF best.count = 0 THEN [NothingFound EXCEPT !.failed = TRUE]
        ELSE [best EXCEPT !.table = ImporterTable(heads, best.mapping)]

\* FileProcessor.get_column_mapping, line 159: the stripped names that are labels
Score(headers, mapping) == Cardinality({h \in headers : Strip(h) \in Keys(mapping)})

RECURSIVE ScoreLoop(_, _, _)
\* lines 158-162
ScoreLoop(headers, i, best) ==
    IF i > Len(file_processor_mappings) THEN best
    ELSE LET score == Score(headers, file_processor_mappings[i].mapping)
         IN  ScoreLoop(headers, i + 1,
                       IF score > best.count
                       THEN Found(score, file_processor_mappings[i].name,
                                  Range(file_processor_mappings[i].mapping))
                       ELSE best)

\* faulty variant: the first format is returned whatever the scores
get_column_mapping_first(headers) ==
    Found(Score(headers, Spaced), "spaced", Range(Spaced))

\* FileProcessor.get_column_mapping(df)
get_column_mapping(headers) ==
    LET best == ScoreLoop(headers, 1, NothingFound)
    IN  IF best.mapping # {} THEN best
        ELSE Found(0, "original", {<<Strip(h), Strip(h)>> : h \in headers})

\* _process_lincoln_data, lines 118-121: the renamed columns without the unnamed ones
LincolnTable(headers, pairs) ==
    {c \in {Column(Renamed(pairs, Strip(h)), h) : h \in headers} : ~StartsAt(c.name, 1, TUnnamed)}

----------------------------------------------------------------------------
(* Header rows                                                             *)

MaxHeaders == 3

\* labels of the formats as they stand, in another letter case, padded,
\* quoted, a part of a label, an unknown header and an unnamed column
HeaderSamples ==
    {Spaced[4][1], Spaced[5][1], Spaced[8][1], Spaced[1][1], Camel[3][1], Camel[5][1],
     Underscore[3][1], Short[3][1], Reworked[2][1], Lower(Spaced[4][1]),
     <<" ">> \o Spaced[7][1] \o <<" ">>, <<"\"">> \o Spaced[6][1] \o <<"\"">>,
     <<"G", "i", "v", "e", "n", " ", "n", "a", "m", "e">>, <<"f", "o", "o">>,
     TUnnamed \o <<" ", "0">>}

HeaderRows == {hs \in SUBSET HeaderSamples : 1 <= Cardinality(hs) /\ Cardinality(hs) <= MaxHeaders}

FilePaths == {<<"d", "a", "t", "a", ".", "x", "l", "s", "x">>, <<"x", "/">> \o TRewritten}

----------------------------------------------------------------------------
(* Column resolution as a state machine                                    *)

InitColumns ==
    /\ cpc = "read"
    /\ cwho = "none"
    /\ cpath \in FilePaths
    /\ chead \in HeaderRows
    /\ cres = NothingFound
    /\ YearVarsIdle /\ DateVarsIdle /\ TextVarsIdle /\ RunVarsIdle

\* LincolnImporter.import_lincoln_data asks the FileProcessor for the mapping
GetColumnMapping ==
    /\ cpc = "read"
    /\ cwho' = "lincoln"
    /\ cres' = get_column_mapping(chead)
    /\ cpc' = "mapped"
    /\ UNCHANGED <<cpath, chead>>
    /\ UNCHANGED otherThanColumns

\* ... then _process_lincoln_data renames the columns and builds a record of
\* every row, and insert_lincoln_records stores them
ProcessLincolnFrame ==
    /\ cpc = "mapped"
    /\ cres' = [cres EXCEPT !.table = LincolnTable(chead, cres.mapping), !.records = TRUE]
    /\ cpc' = "inserted"
    /\ UNCHANGED <<cwho, cpath, chead>>
    /\ UNCHANGED otherThanColumns

\* DataImporter.process_file hands the frame to validate_and_clean_dataframe
ValidateColumns ==
    /\ cpc = "read"
    /\ cwho' = "importer"
    /\ cres' = ResolveColumns(cpath, chead)
    /\ cpc' = IF cres'.failed THEN "failed" ELSE "resolved"
    /\ UNCHANGED <<cpath, chead>>
    /\ UNCHANGED otherThanColumns

\* ... and run_import hands the cleaned frame to import_to_db
ImportResolved ==
    /\ cpc = "resolved"
    /\ cres' = [cres EXCEPT !.records = TRUE]
    /\ cpc' = "inserted"
    /\ UNCHANGED <<cwho, cpath, chead>>
    /\ UNCHANGED otherThanColumns

NextColumns == GetColumnMapping \/ ProcessLincolnFrame \/ ValidateColumns \/ ImportResolved

SpecColumns == InitColumns /\ [][NextColumns]_vars

----------------------------------------------------------------------------
(* Import runs: the commands, the orchestrators and the storage            *)

\* the longest file, in rows
MaxRows == 2

\* what happens to a row: it is cleaned and inserted ("ok"), a cleaner raises
\* on one of its cells ("bad"), or the INSERT statement of its record fails ("reject")
RowKinds == {"ok", "bad", "reject"}

RowSeqs == UNION {[1..n -> RowKinds] : n \in 0..MaxRows}

Commands == {"main", "main_orphans", "main_clean", "importer_main"}

\* the commands that run DataImporter.run_import
RunsDataImporter == rcmd \in {"main", "importer_main"}

\* config.py, lines 14-18: the variables of the connection
ConnectionVars == {"DB_HOST", "DB_PORT", "DB_NAME", "DB_USER", "DB_PASSWORD"}

\* config.py, line 27
required_vars == {"DB_HOST", "DB_NAME", "DB_USER", "DB_PASSWORD"}

\* a stored row: a row the table held before the run, or row i of the file
StoredRow(src, i) == [src |-> src, row |-> i]

PriorTables == {<<>>, <<StoredRow("prior", 1)>>}

\* cursor.execute(INSERT ...) inside the open transaction
Execute(db, rec) == [db EXCEPT !.txn = Append(@, rec)]

\* conn.commit()
Commit(db) == [table |-> db.table \o db.txn, txn |-> <<>>]

\* faulty variant: the rows executed so far are kept when the block is left by an exception
Rollback_keeps(db) == [table |-> db.table \o db.txn, txn |-> <<>>]

\* 'with psycopg2.connect(...) as conn' left by an exception: the transaction is rolled back
Rollback(db) == [db EXCEPT !.txn = <<>>]

\* DROP TABLE IF EXISTS students CASCADE; CREATE TABLE students, committed
DropAndCreate(db) == [table |-> <<>>, txn |-> <<>>]

\* an exception leaves the orchestrator for the command
Raise(kind) == rpc' = "raised" /\ rout' = [rout EXCEPT !.err = kind]

Step(events) == rtrace' = rtrace \o events

InitRun ==
    /\ rpc = "start"
    /\ rcmd \in Commands
    /\ \E u \in ConnectionVars \cup {"none"}, prior \in PriorTables :
          /\ renv = [unset |-> u, prior |-> prior]
          /\ rdb = [table |-> prior, txn |-> <<>>]
    /\ rrows = <<>> /\ rrecs = <<>> /\ ri = 1 /\ rtrace = <<>>
    /\ rout = [msgs |-> <<>>, exit |-> "running", err |-> "none", warned |-> 0]
    /\ YearVarsIdle /\ DateVarsIdle /\ TextVarsIdle /\ ColumnVarsIdle

\* main_clean.main, line 15: validate_config()
ValidateConfig ==
    /\ rpc = "start" /\ rcmd = "main_clean"
    /\ Step(<<"validate">>)
    /\ IF renv.unset \in required_vars
       THEN Raise("config")
       ELSE rpc' = "validated" /\ UNCHANGED rout
    /\ UNCHANGED <<rcmd, renv, rdb, rrows, rrecs, ri>>
    /\ UNCHANGED otherThanRun

\* every main: 'if not ...exists(): print(...); return'
CheckInputFile ==
    /\ rpc = (IF rcmd = "main_clean" THEN "validated" ELSE "start")
    /\ Step(<<"exists">>)
    /\ \E exists \in BOOLEAN :
          IF exists THEN rpc' = "checked" /\ UNCHANGED rout
          ELSE /\ rpc' = "done"
               /\ rout' = [rout EXCEPT !.msgs = Append(@, "not_found"), !.exit = "zero"]
    /\ UNCHANGED <<rcmd, renv, rdb, rrows, rrecs, ri>>
    /\ UNCHANGED otherThanRun

\* run_import, line 1055: create_database_schema(); import_lincoln_data,
\* line 57: create_lincoln_schema(); the connection may fail
CreateSchema ==
    /\ rpc = "checked" /\ rcmd # "main_orphans"
    /\ \E up \in BOOLEAN :
          IF up
          THEN /\ Step(<<"connect", "schema">>)
               /\ rdb' = IF RunsDataImporter THEN DropAndCreate(rdb) ELSE rdb
               /\ rpc' = "schema"
               /\ UNCHANGED rout
          ELSE Step(<<"connect">>) /\ Raise("storage") /\ UNCHANGED rdb
    /\ UNCHANGED <<rcmd, renv, rrows, rrecs, ri>>
    /\ UNCHANGED otherThanRun

\* DataImporter.process_file: the file is read, its columns are resolved and
\* its cells cleaned; a cleaner that raises ends validate_and_clean_dataframe
ProcessFile ==
    /\ rpc = "schema" /\ RunsDataImporter
    /\ \E how \in {"unreadable", "no_convention", "ok"}, rows \in RowSeqs :
          CASE how = "unreadable" ->
                 /\ rows = <<>>
                 /\ Step(<<"load">>) /\ Raise("file") /\ UNCHANGED <<rrows, rrecs>>
            [] how = "no_convention" ->
                 /\ Step(<<"load", "columns">>) /\ Raise("schema_mismatch")
                 /\ rrows' = rows /\ UNCHANGED rrecs
            [] how = "ok" ->
                 /\ rrows' = rows
                 /\ IF \E i \in DOMAIN rows : rows[i] = "bad"
                    THEN Step(<<"load", "columns">>) /\ Raise("row") /\ UNCHANGED rrecs
                    ELSE /\ Step(<<"load", "columns", "records">>)
                         /\ rrecs' = [i \in DOMAIN rows |-> i]
                         /\ rpc' = "records"
                         /\ UNCHANGED rout
    /\ UNCHANGED <<rcmd, renv, rdb, ri>>
    /\ UNCHANGED otherThanRun

\* import_lincoln_data, line 60: FileProcessor.read_file
ReadFile ==
    /\ rpc = "schema" /\ rcmd = "main_clean"
    /\ Step(<<"load">>)
    /\ \E readable \in BOOLEAN, rows \in RowSeqs :
          IF readable THEN rrows' = rows /\ rpc' = "loaded" /\ UNCHANGED rout
          ELSE rows = <<>> /\ Raise("file") /\ UNCHANGED rrows
    /\ UNCHANGED <<rcmd, renv, rdb, rrecs, ri>>
    /\ UNCHANGED otherThanRun

\* import_lincoln_data, line 61: get_column_mapping, which always gives a mapping
GetMapping ==
    /\ rpc = "loaded"
    /\ Step(<<"columns">>)
    /\ rpc' = "rows"
    /\ ri' = 1
    /\ UNCHANGED <<rcmd, renv, rdb, rrows, rrecs, rout>>
    /\ UNCHANGED otherThanRun

\* _process_lincoln_data, lines 126-171: one pass of the loop over the rows
ProcessLincolnRecord ==
    /\ rpc = "rows" /\ ri <= Len(rrows)
    /\ IF rrows[ri] = "bad"
       THEN rout' = [rout EXCEPT !.warned = @ + 1] /\ UNCHANGED rrecs
       ELSE rrecs' = Append(rrecs, ri) /\ UNCHANGED rout
    /\ ri' = ri + 1
    /\ UNCHANGED <<rpc, rcmd, renv, rdb, rrows, rtrace>>
    /\ UNCHANGED otherThanRun

\* _process_lincoln_data, line 173: return cleaned_records
ReturnRecords ==
    /\ rpc = "rows" /\ ri > Len(rrows)
    /\ Step(<<"records">>)
    /\ rpc' = "records"
    /\ UNCHANGED <<rcmd, renv, rdb, rrows, rrecs, ri, rout>>
    /\ UNCHANGED otherThanRun

\* import_to_db, line 866 / insert_lincoln_records, line 125: the connection
OpenInsert ==
    /\ rpc = "records"
    /\ Step(<<"connect">>)
    /\ \E up \in BOOLEAN :
          IF up THEN rpc' = "inserting" /\ UNCHANGED rout ELSE Raise("storage")
    /\ ri' = 1
    /\ UNCHANGED <<rcmd, renv, rdb, rrows, rrecs>>
    /\ UNCHANGED otherThanRun

\* one pass of the loop over the records: the INSERT is executed or fails;
\* the failure is logged and raised again, which leaves the 'with' block
InsertRecord ==
    /\ rpc = "inserting" /\ ri <= Len(rrecs)
    /\ IF rrows[rrecs[ri]] = "reject"
       THEN /\ Step(<<"insert", "rollback">>)
            /\ rdb' = Rollback(rdb)
            /\ Raise("storage")
            /\ UNCHANGED ri
       ELSE /\ Step(<<"insert">>)
            /\ rdb' = Execute(rdb, StoredRow("file", rrecs[ri]))
            /\ ri' = ri + 1
            /\ UNCHANGED <<rpc, rout>>
    /\ UNCHANGED <<rcmd, renv, rrows, rrecs>>
    /\ UNCHANGED otherThanRun

\* conn.commit() after the loop
CommitInsert ==
    /\ rpc = "inserting" /\ ri > Len(rrecs)
    /\ Step(<<"commit">>)
    /\ rdb' = Commit(rdb)
    /\ rpc' = IF rcmd = "main_clean" THEN "lincoln_done" ELSE "imported"
    /\ UNCHANGED <<rcmd, renv, rrows, rrecs, ri, rout>>
    /\ UNCHANGED otherThanRun

\* main_clean.main, lines 39-44: the success line of the students, then
\* import_orphans_data, which succeeds or raises
ImportOrphansData ==
    /\ rpc = "lincoln_done"
    /\ \E ok \in BOOLEAN :
          IF ok THEN rpc' = "imported" /\ rout' = [rout EXCEPT !.msgs = Append(@, "lincoln_success")]
          ELSE /\ rpc' = "raised"
               /\ rout' = [rout EXCEPT !.msgs = Append(@, "lincoln_success"), !.err = "storage"]
    /\ UNCHANGED <<rcmd, renv, rdb, rrows, rrecs, ri, rtrace>>
    /\ UNCHANGED otherThanRun

\* main_orphans.main, line 27: run_orphans_import, which creates its schema
\* first and then succeeds or raises
RunOrphansImport ==
    /\ rpc = "checked" /\ rcmd = "main_orphans"
    /\ \E how \in {"ok", "storage", "file"} :
          CASE how = "ok" ->
                 /\ Step(<<"connect", "schema", "load", "columns", "records", "connect", "commit">>)
                 /\ rpc' = "imported" /\ UNCHANGED rout
            [] how = "storage" -> Step(<<"connect">>) /\ Raise("storage")
            [] how = "file" -> Step(<<"connect", "schema", "load">>) /\ Raise("file")
    /\ UNCHANGED <<rcmd, renv, rdb, rrows, rrecs, ri>>
    /\ UNCHANGED otherThanRun

\* the last print of the try block; main returns and the process ends with status 0
PrintSuccess ==
    /\ rpc = "imported"
    /\ rout' = [rout EXCEPT !.msgs = Append(@, "success"), !.exit = "zero"]
    /\ rpc' = "done"
    /\ UNCHANGED <<rcmd, renv, rdb, rrows, rrecs, ri, rtrace>>
    /\ UNCHANGED otherThanRun

\* 'except Exception as e: print("Import failed ...")'; only main_clean goes
\* on to sys.exit(1)
HandleFailure ==
    /\ rpc = "raised"
    /\ rout' = [rout EXCEPT !.msgs = Append(@, "failure"),
                            !.exit = IF rcmd = "main_clean" THEN "nonzero" ELSE "zero"]
    /\ rpc' = "done"
    /\ UNCHANGED <<rcmd, renv, rdb, rrows, rrecs, ri, rtrace>>
    /\ UNCHANGED otherThanRun

NextRun ==
    \/ ValidateConfig
    \/ CheckInputFile
    \/ CreateSchema
    \/ ProcessFile
    \/ ReadFile
    \/ GetMapping
    \/ ProcessLincolnRecord
    \/ ReturnRecords
    \/ OpenInsert
    \/ InsertRecord
    \/ CommitInsert
    \/ ImportOrphansData
    \/ RunOrphansImport
    \/ PrintSuccess
    \/ HandleFailure

SpecRun == InitRun /\ [][NextRun]_vars

----------------------------------------------------------------------------
(* Claims about the year normalizer                                        *)

\* shapes whose input states one year y (and possibly an alternative z)
StatedYearShapes == {"int", "float", "str", "str.0", "about", "c.", "or", "slash", "iso"}

\* C1 (as stated): for every input clean_year returns null or an integer in
\* [1800, 2000], and a stated year of at most four digits outside that range
\* gives null, never 1800 or 2000.
C1_YearNullOrInRange ==
    ypc # "call" =>
        /\ yout.k \in {"None", "int"}
        /\ yout.k = "int" => (1800 <= yout.v /\ yout.v <= 2000)
        /\ (ysrc.shape \in StatedYearShapes /\ ysrc.y <= 9999 /\ ~(1800 <= ysrc.y /\ ysrc.y <= 2000))
              => yout.k = "None"

\* C2 (as stated): every numeric input gives itself when it is a whole number
\* in [1800, 2000] and null otherwise, and the decimal text of a year in
\* [1800, 2000] gives that year.
C2_NumericYear ==
    ypc # "call" =>
        /\ ysrc.shape \in {"int", "float"} =>
              yout.k = (IF 1800 <= ysrc.y /\ ysrc.y <= 2000 THEN "int" ELSE "None")
        /\ (ysrc.shape \in {"int", "float", "str"} /\ 1800 <= ysrc.y /\ ysrc.y <= 2000)
              => yout.v = ysrc.y /\ yout.k = "int"
        /\ ysrc.shape \in {"fraction", "bigint", "bigfloat"} => yout.k = "None"

\* C3: 'about y', 'c. y', 'y or z', 'y/z' and 'y-MM-DD' give y for every y in
\* [1800, 2000].
C3_FirstStatedYear ==
    (ypc # "call" /\ ysrc.shape \in {"about", "c.", "or", "slash", "iso"}
        /\ 1800 <= ysrc.y /\ ysrc.y <= 2000)
    => (yout.k = "int" /\ yout.v = ysrc.y)

C3_Witness ==
    ypc = "ret" /\ ysrc.shape = "slash" /\ ysrc.y = 1890 /\ ysrc.z = 1891 /\ yout.v = 1890

\* C4: 'age N' without a run of four digits gives 1900 - N when that lies in
\* [1800, 2000] and null otherwise, and the assembled year field is uncertain
\* with type estimated_from_age.
C4_AgeEstimate ==
    (ysrc.shape = "age" /\ ysrc.y <= 999) =>
        /\ ypc # "call" =>
              IF 1800 <= 1900 - ysrc.y /\ 1900 - ysrc.y <= 2000
              THEN yout.k = "int" /\ yout.v = 1900 - ysrc.y
              ELSE yout.k = "None"
        /\ ypc = "asm" =>
              /\ ~yfield.failed
              /\ yfield.k = yout.k /\ yfield.v = yout.v
              /\ yfield.uncertain /\ yfield.type = "estimated_from_age"

C4_Witness ==
    /\ ypc = "asm" /\ ysrc.shape = "age" /\ ysrc.y = 10
    /\ yin = PyStr(<<"a", "g", "e", " ", "1", "0">>)
    /\ yout.v = 1890 /\ yfield.v = 1890 /\ yfield.uncertain

\* C5: None, NaN, the infinities, the empty text and the texts 'nan', 'inf',
\* '-inf', 'infinity', '-infinity' (trimmed, in any letter case) give null.
C5_SentinelsGiveNull ==
    (ypc # "call" /\ ysrc.shape \in {"None", "nan", "inf", "ninf", "sentinel"})
    => yout.k = "None"

C5_Witness ==
    ypc = "ret" /\ yin = PyStr(<<" ", "-", "i", "n", "f", "i", "n", "i", "t", "y", " ", "\t">>)
    /\ yout.k = "None"

\* C6 (as stated): clean_year never raises: every call returns a value.
C6_YearNeverRaises == ypc # "call" => yout.k # "raise"

----------------------------------------------------------------------------
(* Both pipelines: a cell is cleaned as a year or as a date                *)

Init == InitYear \/ InitDate

Next == NextYear \/ NextDate

Spec == Init /\ [][Next]_vars

----------------------------------------------------------------------------
(* Claims about the date normalizer                                        *)

TXyzAbout == <<"a", "b", "o", "u", "t", " ", "x", "y", "z">>
TAbout1890 == <<"a", "b", "o", "u", "t", " ", "1", "8", "9", "0">>
TIso1890 == <<"1", "8", "9", "0", "-", "0", "1", "-", "0", "1">>
TAboutBefore1890 == <<"a", "b", "o", "u", "t", " ", "b", "e", "f", "o", "r", "e", " ", "1", "8", "9", "0">>

\* C7 (as stated): the date clean_date returns is null or has its year in [1800, 2000],
\* whichever stage produced it, and so has every date handed to storage.
C7_DateNullOrInRange ==
    /\ (dpc \notin {"off", "call"} /\ dout.date.has) => (1800 <= dout.date.y /\ dout.date.y <= 2000)
    /\ (dstore.set /\ dstore.date.has) => (1800 <= dstore.date.y /\ dstore.date.y <= 2000)

\* The classification the text of C10 gives: the first condition that applies
\* to the trimmed text, letter case ignored for the words.
ClaimedClass(value) ==
    LET s == Strip(py_str(value))
        low == Lower(s)
        has(w) == \E i \in 1..Len(low) : StartsAt(low, i, w)
    IN  CASE has(TSemi) -> <<TRUE, "multiple_dates">>
          [] ~has(TSemi) /\ MatchYearRange(s) -> <<TRUE, "range">>
          [] OTHER ->
                IF has(TAbout) \/ has(TCDot) \/ has(TCirca) THEN <<TRUE, "approximate">>
                ELSE IF has(TBefore) THEN <<TRUE, "before">>
                ELSE IF has(TAfter) THEN <<TRUE, "after">>
                ELSE IF has(TEarly) \/ has(TMid) \/ has(TLate) THEN <<TRUE, "period_qualifier">>
                ELSE <<FALSE, "None">>

C9_FlagFalseTypeNull ==
    /\ ~yfield.uncertain => yfield.type = "None"
    /\ ~dfield.uncertain => dfield.type = "None"
    /\ ~dout.uncertain => dout.type = "None"

C9_Witness ==
    /\ ypc = "asm" /\ ysrc.shape = "about" /\ ysrc.y = 1890 /\ yfield.hastext
    /\ yfield.k = "int" /\ yfield.v = 1890 /\ ~yfield.uncertain /\ yfield.type = "None"

\* C10: whenever the date parses, the flag and type clean_date returns are
\* those of the first condition that applies, in the order ';', YYYY-YYYY,
\* about/c./circa, before, after, early/mid/late, precise; 'about 1890' gives
\* a date with (true, approximate) and '1890-01-01' gives (1890-01-01, false, null).
C10_FirstConditionClassifies ==
    dpc \notin {"off", "call"} =>
        /\ dout.date.has => <<dout.uncertain, dout.type>> = ClaimedClass(din)
        /\ din = PyStr(TAbout1890) =>
              (dout.date.has /\ dout.uncertain /\ dout.type = "approximate")
        /\ din = PyStr(TIso1890) =>
              (dout.date = Date(1890, 1, 1) /\ ~dout.uncertain /\ dout.type = "None")

C10_Witness ==
    /\ dpc = "ret" /\ din = PyStr(TAboutBefore1890)
    /\ dout.date = Date(1890, 1, 1) /\ dout.uncertain /\ dout.type = "approximate"

----------------------------------------------------------------------------
(* Claims about text fields                                                *)

\* the field was cleaned by clean_name, and its result is in tval
NameCleaned ==
    /\ tpc \in {"cleaned", "rec"}
    /\ \/ tpath = "lincoln" /\ tfield \in StudentNameFields
       \/ tpath = "orphans" /\ tfield \in OrphanNameFields
       \/ tpath = "importer" /\ tfield \in StudentNameFields \cup {"alias"}

\* the argument of that call of clean_name
NameArgument == row_get(tcell, PyNone)

\* the characters the text of C12 allows in a cleaned name
ClaimedAllowed(c) ==
    \/ c \in Range(Digits) \cup Range(UpperLetters) \cup Range(LowerLetters)
    \/ IsSpace(c)
    \/ c \in {"-", "."}

\* C12 (as stated): for every non-null input the output of clean_name holds
\* only alphanumeric characters, whitespace, hyphens and periods: every other
\* character is removed and the allowed ones are kept in their order
\* ('John@Doe' gives 'JohnDoe'; 'John-Doe', 'John.Doe', 'John Doe' are unchanged).
C12_NameKeepsAllowedOnly ==
    (NameCleaned /\ ~pd_isna(NameArgument) /\ tval.k = "str") =>
        /\ \A i \in DOMAIN tval.s : ClaimedAllowed(tval.s[i])
        /\ tval.s = Strip(SelectSeq(py_str(NameArgument), ClaimedAllowed))

\* C13 (as stated): clean_name returns null for a null/NaN input and for every
\* input that is empty once the disallowed characters are removed and the
\* result is trimmed; it never returns the empty string.
C13_EmptyNameIsNull ==
    NameCleaned =>
        /\ tval # PyStr(NoText)
        /\ (\/ pd_isna(NameArgument)
            \/ Strip(SelectSeq(py_str(NameArgument), ClaimedAllowed)) = NoText) => tval = PyNone

\* the text normalization of the field (clean_name, then the truncation of the
\* same code path) applied to the value of the record
Renormalized ==
    CASE tpath = "lincoln" -> LincolnRecordField(tfield, trec)
      [] tpath = "orphans" -> OrphanRecordField(tfield, trec)
      [] OTHER -> ImporterStored(tfield, ImporterClean(tfield, trec))

\* C14 (as stated): text normalization is idempotent: clean_name followed by
\* the truncation to the field's maximum length, applied to its own output,
\* returns that same output.
C14_TextNormalizationIdempotent ==
    (tpc = "rec" /\ NameCleaned) => Renormalized = trec

\* the maximum lengths the text of C19 lists for the students table
ClaimedMax(f) ==
    CASE f = "census_record_1900" -> 100
      [] f \in {"indian_name", "cemetery_burial"} -> 500
      [] f \in {"family_name", "english_given_name", "alias", "nation", "band", "agency", "trade"} -> 200
      [] f = "sex" -> 1

ClaimedLimited ==
    {"census_record_1900", "indian_name", "cemetery_burial", "family_name",
     "english_given_name", "alias", "nation", "band", "agency", "trade", "sex"}

C20_MissingTextIsNull ==
    (tpc = "rec" /\ (tcell = Absent \/ pd_isna(tcell))) => trec = PyNone

----------------------------------------------------------------------------
(* Claims about column resolution                                          *)

\* the resolver has returned or failed
Resolved == cpc \in {"mapped", "resolved", "failed", "inserted"}

\* the name under which the resolver at work compares the header
SeenName(h) == IF cwho = "importer" THEN ImporterName(h) ELSE Strip(h)

\* the headers the resolver at work compares
SeenHeaders == IF cwho = "importer" THEN ImporterKept(chead) ELSE chead

\* the count the text of C16 gives format i of the catalog: the headers that
\* equal one of its labels, letter case ignored
ClaimedCount(i) ==
    Cardinality({h \in SeenHeaders :
                   \E k \in Keys(column_mappings[i].mapping) : Lower(k) = Lower(SeenName(h))})

\* the format the text of C16 selects: the first of those with the highest count
ClaimedFormat ==
    CHOOSE i \in DOMAIN column_mappings :
        /\ \A j \in DOMAIN column_mappings : ClaimedCount(j) <= ClaimedCount(i)
        /\ \A j \in 1..(i - 1) : ClaimedCount(j) < ClaimedCount(i)

\* the canonical student fields
CanonicalFields == {FieldText[f] : f \in DOMAIN FieldText}

\* every header of the file is a label, as it stands, of format i of the FileProcessor
LabelsOf(i) == \A h \in chead : h \in Keys(file_processor_mappings[i].mapping)

C16_SelectsHighestCount ==
    (Resolved /\ ClaimedCount(ClaimedFormat) > 0) =>
        (~cres.failed /\ cres.format = column_mappings[ClaimedFormat].name)

\* no header matches a format of the catalog, neither as a label nor by a part
NoMatchAtAll ==
    \A i \in DOMAIN column_mappings :
        /\ ClaimedCount(i) = 0
        /\ PartialMatches(SeenHeaders, column_mappings[i].mapping) = {}

\* C17 (as stated): when no header of the file matches any format, neither
\* exactly nor by a part, column resolution fails and produces no mapping; it
\* never falls back to a guessed mapping and no record of the file is
\* assembled or inserted.
C17_NoMatchFails ==
    (Resolved /\ NoMatchAtAll) =>
        (cres.failed /\ cres.mapping = {} /\ cres.table = {} /\ ~cres.records)

\* C18 (as stated): whenever column resolution returns without failing its
\* result covers every canonical field: each is present in the resolved table
\* (DataImporter) or mapping (FileProcessor), and a canonical field that no
\* header supplies is present with null.
C18_CoversCanonicalFields ==
    (Resolved /\ ~cres.failed) =>
        \A f \in CanonicalFields :
            /\ cwho = "lincoln" => f \in Values(cres.mapping)
            /\ cwho = "importer" =>
                  /\ \E c \in cres.table : c.name = f
                  /\ (\A c \in cres.table : c.name = f => c.null)
                        \/ (\E c \in cres.table : c.name = f /\ ~c.null /\ c.src \in chead)

----------------------------------------------------------------------------
(* Further claims about the year and date normalizers                      *)

\* C27 (as stated): for text containing 'age' an embedded 4-digit number
\* decides the result alone: the number when it is in [1800, 2000], null when
\* it is out of range; no year is computed as 1900 - N then.
C27_FourDigitsBeforeAge ==
    LET year_str == Lower(Strip(py_str(yin)))
    IN  (ypc # "call" /\ yin.k = "str" /\ Contains(year_str, TAge) /\ Search4(year_str) # 0) =>
            /\ yout.exc = "none"
            /\ IF 1800 <= Search4Value(year_str) /\ Search4Value(year_str) <= 2000
               THEN yout.k = "int" /\ yout.v = Search4Value(year_str)
               ELSE yout.k = "None"

TMonthFirst1890 == <<"0", "1", "/", "0", "2", "/", "1", "8", "9", "0">>

\* the text the stages of _parse_date work on: the classified text, trimmed,
\* with the qualifier word removed
StageText == StripQualifier(Strip(Classify(Strip(py_str(din))).text))

\* what each format of the list reads in the text: entry k is strptime's result
FormatResults(s) == [k \in 1..7 |-> strptime(s, k)]

\* the formats that read a date with its year in [1800, 2000]
FormatGives(r) == {k \in 1..7 : r[k].ok /\ 1800 <= r[k].date.y /\ r[k].date.y <= 2000}

\* the first run of four digits in the text is a year in [1800, 2000]
EmbeddedYearGives(s) ==
    Search4(s) # 0 /\ 1800 <= Search4Value(s) /\ Search4Value(s) <= 2000

\* the flexible parse gave a date with its year in [1800, 2000]
FlexibleGives ==
    flex \in {"before1800", "in_range", "near_epoch", "after2000"}
    /\ 1800 <= FlexDate(flex).y /\ FlexDate(flex).y <= 2000

C28_WitnessSearchGoesOn ==
    /\ dpc = "ret" /\ flex = "in_range" /\ dout.date = FlexDate("in_range")
    /\ strptime(StageText, 7).ok /\ FormatGives(FormatResults(StageText)) = {}

----------------------------------------------------------------------------
(* Further claims about the resolved table                                 *)

\* the entries (label, field) of the convention the resolver chose
ChosenEntries ==
    UNION {Range(column_mappings[i].mapping) :
             i \in {j \in DOMAIN column_mappings : column_mappings[j].name = cres.format}}

\* header h was counted as a match of the label of entry e
CountedExact(h, e) ==
    IF cwho = "importer" THEN Lower(e[1]) = Lower(ImporterName(h)) ELSE e[1] = Strip(h)

\* header h was matched with the label of entry e by the partial-match fallback
CountedPartial(h, e) ==
    /\ cwho = "importer"
    /\ \A i \in DOMAIN column_mappings : ClaimedCount(i) = 0
    /\ \/ Contains(Lower(ImporterName(h)), Lower(e[1]))
       \/ Contains(Lower(e[1]), Lower(ImporterName(h)))

\* in the resolved table the field f holds the cells of the column of header h
Supplies(h, f) == \E c \in cres.table : c.name = f /\ c.src = h /\ ~c.null

\* C29 (as stated): every header counted as a match for the chosen convention,
\* by equality with a label ignoring letter case or by the partial-match
\* fallback, supplies its canonical field in the resolved table; the field
\* is not an added all-null column.
C29_MatchedHeaderSuppliesField ==
    (cpc \in {"resolved", "inserted"} /\ ~cres.failed) =>
        \A h \in SeenHeaders :
            /\ \A e \in ChosenEntries : CountedExact(h, e) => Supplies(h, e[2])
            /\ (\E e \in ChosenEntries : CountedPartial(h, e)) =>
                  \E e \in ChosenEntries : CountedPartial(h, e) /\ Supplies(h, e[2])

----------------------------------------------------------------------------
(* Claims about the stored record, end to end                              *)

\* C25 (as stated): a row whose 'Year of birth' is 'about 1890' gets
\* year_of_birth = 1890 with year_of_birth_uncertain = true, and a row with
\* an unparseable date is still stored, its date null with uncertain = false.
C25_AboutYearAndBadDateStored ==
    /\ (ypc = "asm" /\ yin = PyStr(TAbout1890)) =>
          (yfield.k = "int" /\ yfield.v = 1890 /\ yfield.uncertain)
    /\ (dpc = "stored" /\ ~IsNullLike(din) /\ ~dout.date.has) =>
          (dstore.set /\ ~dstore.date.has /\ ~dfield.uncertain)

----------------------------------------------------------------------------
(* Claims about import runs                                                *)

\* the numbers of the rows on which no cleaner raises, in the order of the file
NonFailing(rows) ==
    LET Kept(i) == rows[i] # "bad"
    IN  SelectSeq([i \in DOMAIN rows |-> i], Kept)

\* C21 (as stated): a failure while processing one row is caught, logged and
\* the row skipped; it does not abort the import of the file and does not
\* reach the caller, and the records are one per row that did not fail, in
\* the order of the rows.
C21_RowFailureSkipped ==
    /\ rout.err # "row"
    /\ rpc \in {"records", "inserting", "lincoln_done", "imported"} => rrecs = NonFailing(rrows)
    /\ rpc = "records" => rout.warned = Len(rrows) - Len(rrecs)

\* the positions of the step in the trace
Positions(step) == {i \in DOMAIN rtrace : rtrace[i] = step}

\* some step of the kind was taken before position i
Before(step, i) == \E j \in Positions(step) : j < i

\* C22 (as stated): in every import run the steps come in the order load
\* file, resolve columns, assemble records, ensure the target schema, bulk
\* insert; no schema statement is issued before the file has been loaded and
\* its columns resolved.
C22_SchemaAfterColumns ==
    /\ \A i \in Positions("schema") : Before("load", i) /\ Before("columns", i)
    /\ \A i \in Positions("columns") : Before("load", i)
    /\ \A i \in Positions("records") : Before("columns", i)
    /\ \A i \in Positions("insert") : Before("records", i) /\ Before("schema", i)

\* the rows of the file that the table holds
FileRowsStored ==
    LET FromFile(r) == r.src = "file"
    IN  SelectSeq(rdb.table, FromFile)

\* the records of the file as stored rows
RecordsAsRows == [i \in DOMAIN rrecs |-> StoredRow("file", rrecs[i])]

\* C23: the rows of a file are inserted in one transaction, committed once
\* and only after the insert of the last row: before the commit no row of the
\* file is stored, after it all are; when an insert fails the transaction is
\* rolled back, no row of the file is stored and the error reaches the caller.
C23_OneTransactionPerFile ==
    rcmd \in {"main", "importer_main", "main_clean"} =>
        /\ Cardinality(Positions("commit")) <= 1
        /\ \A c \in Positions("commit") :
              /\ \A i \in Positions("insert") : i < c
              /\ Cardinality(Positions("insert")) = Len(rrecs)
        /\ Positions("commit") = {} => FileRowsStored = <<>>
        /\ Positions("commit") # {} => (FileRowsStored = RecordsAsRows /\ rdb.txn = <<>>)
        /\ rpc \in {"lincoln_done", "imported"} => Positions("commit") # {}
        /\ Positions("rollback") # {} =>
              /\ Positions("commit") = {}
              /\ FileRowsStored = <<>> /\ rdb.txn = <<>>
              /\ rpc \in {"raised", "done"} /\ rout.err = "storage"

\* two rows were inserted and then committed together
C23_Witness ==
    /\ rcmd = "main_clean" /\ rpc = "lincoln_done"
    /\ rrows = <<"ok", "ok">> /\ Len(FileRowsStored) = 2
    /\ rtrace[Len(rtrace)] = "commit" /\ Cardinality(Positions("insert")) = 2

\* the second insert failed after the first was executed: nothing of the file is stored
C23_WitnessRollback ==
    /\ rcmd = "main" /\ rpc = "raised" /\ rrows = <<"ok", "reject">>
    /\ Cardinality(Positions("insert")) = 2 /\ Positions("rollback") # {}
    /\ FileRowsStored = <<>> /\ rout.err = "storage"

\* C24 (as stated): in every run command, when the import fails with a fatal
\* error (schema mismatch, storage error, missing input file, configuration
\* error) the command prints a failure message and ends with a non-zero exit
\* status; a zero exit status comes only after the success message.
C24_FailureExitsNonZero ==
    rpc = "done" =>
        /\ rout.err \in {"schema_mismatch", "storage", "file", "config"} =>
              (rout.exit = "nonzero" /\ rout.msgs[Len(rout.msgs)] = "failure")
        /\ rout.msgs[Len(rout.msgs)] = "not_found" => rout.exit = "nonzero"
        /\ rout.exit = "zero" => rout.msgs[Len(rout.msgs)] = "success"

\* C26 (as stated): in every run command the configuration is validated
\* first: with a connection variable (host, port, database name, user,
\* password) unset the run ends with a configuration error before any input
\* file is read and before any connection is opened or schema statement issued.
C26_ConfigValidatedFirst ==
    renv.unset \in ConnectionVars =>
        /\ \A step \in {"load", "connect", "schema"} : Positions(step) = {}
        /\ Positions("validate") # {} => rout.err = "config"
        /\ Positions("exists") # {} => Positions("validate") # {}

\* the run has failed: an error was raised, or the input file was not found
RunFailed == rout.err # "none" \/ (rpc = "done" /\ rout.msgs[Len(rout.msgs)] = "not_found")

\* C30 (as stated): a failed run of run_import or import_lincoln_data does
\* not destroy data: the records the target table held before the run are
\* all still stored after the run has ended.
C30_FailedRunKeepsPriorRows ==
    (rcmd \in {"main", "importer_main", "main_clean"} /\ rpc = "done" /\ RunFailed) =>
        \A i \in DOMAIN renv.prior : \E j \in DOMAIN rdb.table : rdb.table[j] = renv.prior[i]

====
